---------------------------- MODULE Spec2Model ----------------------------
(***************************************************************************)
(* State-machine model of the fetch-and-aggregate pipeline of              *)
(* morpho_dashboard: the pLimit concurrency gate, the retrying network     *)
(* helpers fetchJsonWithRetry / gqlRequest, and the sequential stages of   *)
(* run() (vault depositor loop, Pendle mapping stage).                     *)
(***************************************************************************)
EXTENDS Integers, Sequences, FiniteSets, TLC

(***************************************************************************)
(* Bounds of the model.                                                    *)
(***************************************************************************)
MaxTasks == 3
MaxConcurrency == 2
MaxRetriesBound == 6
MaxRunRetries == 2
MaxVaults == 6
MaxChains == 2
MaxBorrowers == 2

VARIABLES
  \* ---- pLimit(concurrency) ----
  concurrency,   \* the argument of pLimit
  queue,         \* const queue = []   (sequence of queued run closures, by task)
  active,        \* let active = 0
  st,            \* per task: position of the task in the promise chain
  outcome,       \* per task: how fn settled ("none" | "ok" | "err")
  promise,       \* per task: state of the promise returned by limit(fn)
  startOrder,    \* history: the order in which run() was invoked
  wasQueued      \* history: the tasks that went through queue.push(run)

gateVars == <<concurrency, queue, active, st, outcome, promise, startOrder, wasQueued>>

VARIABLES
  \* ---- one call of fetchJsonWithRetry / gqlRequest ----
  fn,            \* which helper is executing ("none" when no call is in progress)
  maxRetries,    \* CONFIG.maxRetries
  tryNum,        \* the tryNum parameter of the current (recursive) invocation
  rpc,           \* position: "idle" | "ready" | "inflight" | "retrySleep" | "pacing" | "ok" | "failed"
  calls,         \* history: number of fetch() invocations of this call
  lastOutcome,   \* the response of the latest fetch(): [status, body]
  err,           \* the response carried by the thrown Error, or NoOutcome
  delay,         \* the ms of the latest retry sleep (-1: none yet)
  prevDelay,     \* history: the ms of the retry sleep before that (-1: none)
  allRetryable,  \* history: every response so far was a retryable failure
  lastCallOk,    \* history: the latest fetch() of this control flow succeeded
  sleptSince     \* history: ms slept since the latest fetch() returned (capped)

retryVars == <<fn, maxRetries, tryNum, rpc, calls, lastOutcome, err, delay, prevDelay,
               allRetryable, lastCallOk, sleptSince>>

VARIABLES
  \* ---- run(): the vault depositor loop and the Pendle mapping stage ----
  pc,                   \* position of run()
  testMode,             \* testMode
  nVaults,              \* vaults.length
  i,                    \* the index of the vault loop
  failureCount,         \* let failureCount = 0
  consecutiveFailures,  \* let consecutiveFailures = 0
  vaultDepositors,      \* vaultDepositors[va], per vault index
  failStreak,           \* history: depositor fetches that failed in a row
  failedVaults,         \* history: the vaults whose depositor fetch failed
  cooledDown,           \* history: the breaker slept before the current fetch
  nChains,              \* CONFIG.chains.length
  c,                    \* the index of the chain loop
  activeByChain,        \* per chain: activeByChain[chain], the list of active markets
  k,                    \* number of markets of marketsWithBorrowers handled so far
  b,                    \* the index of the borrower loop of the current PT market
  collateral,           \* entry.market.collateralAsset of the markets seen, in order
  pendle,               \* entry.pendle of the markets seen, in order
  fetchedFor,           \* history: the markets a position fetch was issued for
  marketData,           \* let marketData = null
  positions             \* b.pendleDashboardPositions of the current market's borrowers

vaultVars == <<testMode, nVaults, i, failureCount, consecutiveFailures, vaultDepositors,
               failStreak, failedVaults, cooledDown>>

pendleVars == <<nChains, c, activeByChain, k, b, collateral, pendle, fetchedFor, marketData,
               positions>>

runVars == <<pc, vaultVars, pendleVars>>

VARIABLES
  \* ---- one paginated fetch ----
  pfn,           \* which paginated fetcher is executing ("none": no fetch)
  first,         \* the page size sent with every page call (first / batchSize)
  marketsLimit,  \* CONFIG.marketsLimit (0: null, no cap)
  provTotal,     \* the number of items the provider holds
  skip,          \* let skip = 0: the offset sent with the next page call
  all,           \* const all = []: the items accumulated so far
  total,         \* let total = null (-1: null)
  ppc,           \* position: "idle" | "call" | "done" | "threw"
  pageCalls,     \* history: number of page calls made
  lastLen,       \* history: items.length of the latest page
  stopSeen,      \* history: a page was short or reached its reported total
  wellFormed,    \* history: every page so far was the provider's next slice
  returned       \* the returned list

pageVars == <<pfn, first, marketsLimit, provTotal, skip, all, total, ppc, pageCalls,
              lastLen, stopSeen, wellFormed, returned>>

VARIABLES
  \* ---- the per-market stage of run() and of buildCompleteDataset() ----
  nMarkets,              \* markets.length
  topBorrowers,          \* per market: the fetched top borrowers (has an address?)
  tpc,                   \* per market: "top" | "txs" | "returned" | "threw"
  enriched,              \* per market: const enriched = [] / borrowersWithTransactions
  failed,                \* history: the markets one of whose fetches failed
  marketsWithBorrowers,  \* const marketsWithBorrowers = await Promise.all(...)
  allMarketsData,        \* this.allMarketsData
  mi,                    \* the index i of the market loop of buildCompleteDataset
  listingFailed,         \* history: a top-level listing fetch failed
  exitStatus,            \* the exit status of the process (-1: still running)
  exported               \* an export file has been written

VARIABLES
  \* ---- one run of the matching loop ----
  collateralAddress,     \* entry.market?.collateralAsset?.address
  matchResult,           \* matching and matchedChain after the loops
  mpc                    \* position: "idle" | "input" | "done"

matchVars == <<collateralAddress, matchResult, mpc>>

VARIABLES
  \* ---- one call of a pure helper (classifier, sorter, flattener, serializer) ----
  callee,                \* which helper is called ("none": no call)
  args,                  \* its arguments
  ret,                   \* its return value (<<>> before it returns)
  hpc                    \* position: "idle" | "call" | "returned" | "threw"

helperVars == <<callee, args, ret, hpc>>

marketVars == <<nMarkets, topBorrowers, tpc, enriched, failed, marketsWithBorrowers,
                allMarketsData, mi, listingFailed, exitStatus, exported>>

vars == <<gateVars, retryVars, runVars, pageVars, marketVars, matchVars, helperVars>>

\* What the steps of pLimit leave alone.
notGateVars == <<retryVars, runVars, pageVars, marketVars, matchVars, helperVars>>

\* What the steps of one helper call leave alone.
notRetryVars == <<gateVars, runVars, pageVars, marketVars, matchVars, helperVars>>

\* What the steps of one paginated fetch leave alone.
notPageVars == <<gateVars, retryVars, runVars, marketVars, matchVars, helperVars>>

\* What the vault loop and the Pendle stage of run() leave alone.
outerVars == <<gateVars, pageVars, marketVars, matchVars, helperVars>>

Tasks == 1..MaxTasks

(***************************************************************************)
(* pLimit                                                                  *)
(***************************************************************************)

\* Tasks are numbered in the order they are submitted.
Submitted(t) == st[t] # "new"

NextToSubmit == CHOOSE t \in Tasks : st[t] = "new" /\ \A u \in Tasks : u < t => Submitted(u)

\* Faulty variant: the slot test admits one task too many.
HasFreeSlotOffByOne == active <= concurrency

\* if (active < concurrency) run(); else queue.push(run);
HasFreeSlot == active < concurrency

\* Faulty variant: queue.pop(), which releases the newest waiter first.
pop(q) == [head |-> q[Len(q)], rest |-> SubSeq(q, 1, Len(q) - 1)]

\* queue.shift()
shift(q) == [head |-> Head(q), rest |-> Tail(q)]

NoOutcome == [status |-> 0, body |-> "none"]

\* No fetchJsonWithRetry / gqlRequest call is in progress.
RetryIdle ==
  /\ fn = "none"
  /\ maxRetries = 1
  /\ tryNum = 1
  /\ rpc = "idle"
  /\ calls = 0
  /\ lastOutcome = NoOutcome
  /\ err = NoOutcome
  /\ delay = -1
  /\ prevDelay = -1
  /\ allRetryable = TRUE
  /\ lastCallOk = FALSE
  /\ sleptSince = 0

\* run() is not executing its vault loop.
VaultsIdle ==
  /\ testMode = FALSE
  /\ nVaults = 0
  /\ i = 0
  /\ failureCount = 0
  /\ consecutiveFailures = 0
  /\ vaultDepositors = <<>>
  /\ failStreak = 0
  /\ failedVaults = {}
  /\ cooledDown = FALSE

\* run() is not executing its Pendle stage.
PendleIdle ==
  /\ nChains = 0
  /\ c = 1
  /\ activeByChain = <<>>
  /\ k = 0
  /\ b = 0
  /\ collateral = <<>>
  /\ pendle = <<>>
  /\ fetchedFor = {}
  /\ marketData = "null"
  /\ positions = <<>>

RunIdle == pc = "idle" /\ VaultsIdle /\ PendleIdle

\* No paginated fetch is executing.
PageIdle ==
  /\ pfn = "none"
  /\ first = 1
  /\ marketsLimit = 0
  /\ provTotal = 0
  /\ skip = 0
  /\ all = <<>>
  /\ total = -1
  /\ ppc = "idle"
  /\ pageCalls = 0
  /\ lastLen = 0
  /\ stopSeen = FALSE
  /\ wellFormed = TRUE
  /\ returned = <<>>

\* No market has been listed.
MarketsIdle ==
  /\ nMarkets = 0
  /\ topBorrowers = [t \in Tasks |-> <<>>]
  /\ tpc = [t \in Tasks |-> "top"]
  /\ enriched = [t \in Tasks |-> <<>>]
  /\ failed = {}
  /\ marketsWithBorrowers = <<>>
  /\ allMarketsData = <<>>
  /\ mi = 0
  /\ listingFailed = FALSE
  /\ exitStatus = -1
  /\ exported = FALSE

\* The matching loop is not executing.
MatchIdle ==
  /\ collateralAddress = "null"
  /\ matchResult = <<>>
  /\ mpc = "idle"

\* No pure helper is being called.
HelperIdle ==
  /\ callee = "none"
  /\ args = <<>>
  /\ ret = <<>>
  /\ hpc = "idle"

InitGate ==
  /\ RetryIdle
  /\ RunIdle
  /\ PageIdle
  /\ MarketsIdle
  /\ MatchIdle
  /\ HelperIdle
  /\ concurrency \in 1..MaxConcurrency
  /\ queue = <<>>
  /\ active = 0
  /\ st = [t \in Tasks |-> "new"]
  /\ outcome = [t \in Tasks |-> "none"]
  /\ promise = [t \in Tasks |-> "pending"]
  /\ startOrder = <<>>
  /\ wasQueued = {}

\* limit(fn): the executor of the returned promise.  Either run() is invoked
\* at once (active++, fn scheduled as a microtask) or run is queued.
Submit ==
  /\ \E t \in Tasks : st[t] = "new"
  /\ LET t == NextToSubmit IN
       IF HasFreeSlot
         THEN /\ active' = active + 1
              /\ st' = [st EXCEPT ![t] = "scheduled"]
              /\ startOrder' = Append(startOrder, t)
              /\ UNCHANGED <<queue, wasQueued>>
         ELSE /\ queue' = Append(queue, t)
              /\ st' = [st EXCEPT ![t] = "queued"]
              /\ wasQueued' = wasQueued \cup {t}
              /\ UNCHANGED <<active, startOrder>>
  /\ UNCHANGED <<concurrency, outcome, promise, notGateVars>>

\* Promise.resolve().then(fn): the microtask that invokes fn.
StartFn(t) ==
  /\ st[t] = "scheduled"
  /\ st' = [st EXCEPT ![t] = "running"]
  /\ UNCHANGED <<concurrency, queue, active, outcome, promise, startOrder, wasQueued, notGateVars>>

\* fn's promise settles (fn returns / resolves, or throws / rejects).
Settle(t) ==
  /\ st[t] = "running"
  /\ \E o \in {"ok", "err"} : outcome' = [outcome EXCEPT ![t] = o]
  /\ st' = [st EXCEPT ![t] = "settled"]
  /\ UNCHANGED <<concurrency, queue, active, promise, startOrder, wasQueued, notGateVars>>

\* Faulty variant: next() gives the slot back only when nobody waits, although
\* the run() of the waiter it starts counts the slot again.
NextThenSettleKeepsSlot(t, how) ==
  IF queue # <<>>
    THEN LET s == shift(queue) IN
         /\ active' = active + 1
         /\ queue' = s.rest
         /\ st' = [st EXCEPT ![t] = "done", ![s.head] = "scheduled"]
         /\ startOrder' = Append(startOrder, s.head)
         /\ promise' = [promise EXCEPT ![t] = how]
    ELSE /\ active' = active - 1
         /\ st' = [st EXCEPT ![t] = "done"]
         /\ promise' = [promise EXCEPT ![t] = how]
         /\ UNCHANGED <<queue, startOrder>>

\* const next = () => { active--; if (queue.length) queue.shift()(); };
\* followed by the settlement `how` of task t's own promise.
NextThenSettle(t, how) ==
  IF queue # <<>>
    THEN LET s == shift(queue) IN
         /\ active' = (active - 1) + 1
         /\ queue' = s.rest
         /\ st' = [st EXCEPT ![t] = "done", ![s.head] = "scheduled"]
         /\ startOrder' = Append(startOrder, s.head)
         /\ promise' = [promise EXCEPT ![t] = how]
    ELSE /\ active' = active - 1
         /\ st' = [st EXCEPT ![t] = "done"]
         /\ promise' = [promise EXCEPT ![t] = how]
         /\ UNCHANGED <<queue, startOrder>>

\* .then((v) => { next(); resolve(v); })
ThenHandler(t) ==
  /\ st[t] = "settled" /\ outcome[t] = "ok"
  /\ NextThenSettle(t, "resolved")
  /\ UNCHANGED <<concurrency, outcome, wasQueued, notGateVars>>

\* Faulty variant: the .catch handler rejects without calling next().
CatchHandlerNoRelease(t) ==
  /\ st[t] = "settled" /\ outcome[t] = "err"
  /\ st' = [st EXCEPT ![t] = "done"]
  /\ promise' = [promise EXCEPT ![t] = "rejected"]
  /\ UNCHANGED <<concurrency, queue, active, outcome, startOrder, wasQueued, notGateVars>>

\* Faulty variant: a rejection also rejects the promises of the queued tasks.
CatchHandlerRejectsAll(t) ==
  /\ st[t] = "settled" /\ outcome[t] = "err"
  /\ active' = active - 1
  /\ st' = [u \in Tasks |-> IF u = t \/ st[u] = "queued" THEN "done" ELSE st[u]]
  /\ promise' = [u \in Tasks |-> IF u = t \/ st[u] = "queued" THEN "rejected" ELSE promise[u]]
  /\ queue' = <<>>
  /\ UNCHANGED <<concurrency, outcome, startOrder, wasQueued, notGateVars>>

\* .catch((e) => { next(); reject(e); })
CatchHandler(t) ==
  /\ st[t] = "settled" /\ outcome[t] = "err"
  /\ NextThenSettle(t, "rejected")
  /\ UNCHANGED <<concurrency, outcome, wasQueued, notGateVars>>

NextGate ==
  \/ Submit
  \/ \E t \in Tasks : StartFn(t)
  \/ \E t \in Tasks : Settle(t)
  \/ \E t \in Tasks : ThenHandler(t)
  \/ \E t \in Tasks : CatchHandler(t)

SpecGate == InitGate /\ [][NextGate]_vars

\* The event loop runs every pending microtask, and every started task settles.
FairGate ==
  /\ \A t \in Tasks : WF_vars(StartFn(t))
  /\ \A t \in Tasks : WF_vars(Settle(t))
  /\ \A t \in Tasks : WF_vars(ThenHandler(t))
  /\ \A t \in Tasks : WF_vars(CatchHandler(t))

SpecGateLive == InitGate /\ [][NextGate]_vars /\ FairGate

(***************************************************************************)
(* Properties of pLimit                                                    *)
(***************************************************************************)

\* Tasks whose fn has been invoked and has not settled.
Running == {t \in Tasks : st[t] = "running"}

\* Tasks that hold a slot: run() was invoked and next() has not yet run for them.
InSlot == {t \in Tasks : st[t] \in {"scheduled", "running", "settled"}}

\* C1: the number of tasks started and not yet settled never exceeds the
\* concurrency of the gate, for any sequence of submissions and settlements.
C1_AtMostNRunning ==
  /\ Cardinality(Running) <= concurrency
  /\ Cardinality(InSlot) <= concurrency

\* C1 witness: a burst larger than the gate: the gate is full and a task waits.
C1_Witness_BurstQueued ==
  /\ Cardinality(Running) = concurrency
  /\ Len(queue) >= 1
  /\ Cardinality({t \in Tasks : Submitted(t)}) > concurrency

\* C2: under the fairness of SpecGateLive (every started task settles), every
\* submitted task is eventually started and its promise eventually settled,
\* whether tasks resolve or reject.
C2_NoDeadlock ==
  \A t \in Tasks :
    /\ Submitted(t) ~> (st[t] \in {"running", "settled", "done"})
    /\ Submitted(t) ~> (promise[t] # "pending")

\* C2 witness: a task rejected, and a task that had to queue was started and
\* its promise settled afterwards.
C2_Witness_QueuedAfterReject ==
  \E t \in Tasks, u \in wasQueued :
    /\ t < u
    /\ promise[t] = "rejected"
    /\ promise[u] # "pending"

\* The settlement of a promise whose task settled with o.
Expected(o) == IF o = "ok" THEN "resolved" ELSE IF o = "err" THEN "rejected" ELSE "pending"

\* C3: a promise returned by the gate settles only with its own task's
\* outcome: a rejection reaches the promise of the rejecting task alone.
C3_FailureIsolated ==
  \A t \in Tasks : promise[t] # "pending" => promise[t] = Expected(outcome[t])

\* C3 witness: one task rejected while another task of the same gate resolved.
C3_Witness_MixedOutcomes ==
  \E t, u \in Tasks : promise[t] = "rejected" /\ promise[u] = "resolved"

\* Task numbers are submission order.
IsIncreasing(s) == \A x, y \in 1..Len(s) : x < y => s[x] < s[y]

C4_StartOrderFifo == IsIncreasing(startOrder) /\ IsIncreasing(queue)

C4_StartOnlyOnSettle ==
  \A t \in Tasks :
    (st[t] = "queued" /\ st'[t] # "queued") =>
      /\ st'[t] = "scheduled"
      /\ \E u \in Tasks : st[u] = "settled" /\ st'[u] = "done"

\* C4: tasks are started in the order they were submitted (queued tasks leave
\* the queue first-in first-out), and a queued task is started only in the
\* step in which a running task's settlement is handled.
C4_Fifo == [](C4_StartOrderFifo) /\ [][C4_StartOnlyOnSettle]_vars

\* C4 witness: two tasks were queued behind a full gate; the first of them has
\* been started and the second still waits.
C4_Witness_TwoQueued ==
  \E t, u \in wasQueued :
    /\ t < u
    /\ st[t] \in {"scheduled", "running"}
    /\ st[u] = "queued"


(***************************************************************************)
(* fetchJsonWithRetry and gqlRequest                                       *)
(***************************************************************************)

RECURSIVE Pow2(_)
\* Math.pow(2, n)
Pow2(n) == IF n <= 0 THEN 1 ELSE 2 * Pow2(n - 1)

Min(x, y) == IF x <= y THEN x ELSE y

\* CONFIG.rateLimitMs (default)
rateLimitMs == 200

\* HTTP statuses the provider may answer with.
Statuses == {200, 400, 404, 429, 500, 502, 503, 504}

\* Response bodies of the REST provider: JSON, or a body res.json() rejects.
RestBodies == {"json", "malformed"}

\* Response bodies of the GraphQL provider: {data}, {errors} whose text holds
\* "Internal server error", {errors} with other messages only, or malformed.
GqlBodies == {"data", "errorsTransient", "errorsOther", "malformed"}

\* The responses fetch() can resolve with for helper f.
Responses(f) ==
  [status : Statuses \ {200}, body : {"text"}] \cup
  [status : {200}, body : IF f = "gqlRequest" THEN GqlBodies ELSE RestBodies]

\* res.ok
ok(res) == res.status >= 200 /\ res.status <= 299

\* [429, 500, 502, 503, 504].includes(res.status)
RetryableStatus(res) == res.status \in {429, 500, 502, 503, 504}

\* json.errors
HasErrors(res) == res.body \in {"errorsTransient", "errorsOther"}

\* errorMessage.includes("Internal server error")
IsTransientMessage(res) == res.body = "errorsTransient"

\* Math.random() * max, as the smallest and the largest whole ms below max.
Jitter(max) == {0, max - 1}

\* fetchJsonWithRetry: Math.min(1000 * Math.pow(2, tryNum), 30000) + jitter
fetchJsonDelay(n, jitter) == Min(1000 * Pow2(n), 30000) + jitter

\* gqlRequest, !res.ok: Math.min(1500 * Math.pow(2, tryNum), 45000) + jitter
gqlHttpDelay(n, jitter) == Min(1500 * Pow2(n), 45000) + jitter

\* gqlRequest, json.errors, tryNum < 3: sleep(200 * tryNum)
gqlQuickDelay(n) == 200 * n

\* gqlRequest, json.errors: 2000 * Math.pow(2, tryNum) + Math.random() * 1000
gqlErrorsDelay(n, jitter) == 2000 * Pow2(n) + jitter

\* One call with tryNum = 1; the caller's pacing history is kept.
BeginCall(f) ==
  /\ fn' = f
  /\ tryNum' = 1
  /\ rpc' = "ready"
  /\ calls' = 0
  /\ lastOutcome' = NoOutcome
  /\ err' = NoOutcome
  /\ delay' = -1
  /\ prevDelay' = -1
  /\ allRetryable' = TRUE
  /\ UNCHANGED maxRetries

\* The call returned or threw: its frame is gone.
EndCall ==
  /\ fn' = "none"
  /\ tryNum' = 1
  /\ rpc' = "idle"
  /\ calls' = 0
  /\ lastOutcome' = NoOutcome
  /\ err' = NoOutcome
  /\ delay' = -1
  /\ prevDelay' = -1
  /\ allRetryable' = TRUE
  /\ UNCHANGED maxRetries

\* The gate is not used by a single helper call.
GateIdle ==
  /\ concurrency = 1
  /\ queue = <<>>
  /\ active = 0
  /\ st = [t \in Tasks |-> "new"]
  /\ outcome = [t \in Tasks |-> "none"]
  /\ promise = [t \in Tasks |-> "pending"]
  /\ startOrder = <<>>
  /\ wasQueued = {}

\* A call of fetchJsonWithRetry(url) or gqlRequest(query, variables) on its own.
InitRetry ==
  /\ GateIdle
  /\ RunIdle
  /\ PageIdle
  /\ MarketsIdle
  /\ MatchIdle
  /\ HelperIdle
  /\ fn \in {"fetchJsonWithRetry", "gqlRequest"}
  /\ maxRetries \in 1..MaxRetriesBound
  /\ tryNum = 1
  /\ rpc = "ready"
  /\ calls = 0
  /\ lastOutcome = NoOutcome
  /\ err = NoOutcome
  /\ delay = -1
  /\ prevDelay = -1
  /\ allRetryable = TRUE
  /\ lastCallOk = FALSE
  /\ sleptSince = 0

\* const res = await fetch(...)   (the request is sent)
Issue ==
  /\ rpc = "ready"
  /\ rpc' = "inflight"
  /\ calls' = calls + 1
  /\ UNCHANGED <<fn, maxRetries, tryNum, lastOutcome, err, delay, prevDelay,
                 allRetryable, lastCallOk, sleptSince, notRetryVars>>

\* The response is a retryable failure in the sense of the helper's contract.
IsRetryableFailure(res) ==
  \/ (~ok(res) /\ RetryableStatus(res))
  \/ (ok(res) /\ IsTransientMessage(res))

\* await sleep(d); return <helper>(..., tryNum + 1)  -- the sleep part
RetryAfter(d) ==
  /\ rpc' = "retrySleep"
  /\ prevDelay' = delay
  /\ delay' = d
  /\ UNCHANGED err

\* throw new Error(...)  (or res.json() rejecting)
Throw(res) ==
  /\ rpc' = "failed"
  /\ err' = res
  /\ UNCHANGED <<delay, prevDelay>>

\* fetchJsonWithRetry after fetch() resolved with res.
fetchJsonWithRetry(res) ==
  IF ~ok(res)
    THEN IF tryNum < maxRetries /\ RetryableStatus(res)
           THEN \E j \in Jitter(1000) : RetryAfter(fetchJsonDelay(tryNum, j))
           ELSE Throw(res)
    ELSE IF res.body = "malformed"
           THEN Throw(res)
           ELSE /\ rpc' = "ok"
                /\ UNCHANGED <<err, delay, prevDelay>>

\* gqlRequest after fetch() resolved with res.
gqlRequest(res) ==
  IF ~ok(res)
    THEN IF tryNum < maxRetries /\ RetryableStatus(res)
           THEN \E j \in Jitter(1500) : RetryAfter(gqlHttpDelay(tryNum, j))
           ELSE Throw(res)
    ELSE IF res.body = "malformed"
           THEN Throw(res)
           ELSE IF HasErrors(res)
                  THEN IF tryNum < 3
                         THEN RetryAfter(gqlQuickDelay(tryNum))
                         ELSE IF IsTransientMessage(res) /\ tryNum < maxRetries
                                THEN \E j \in Jitter(1000) : RetryAfter(gqlErrorsDelay(tryNum, j))
                                ELSE Throw(res)
                  ELSE /\ rpc' = "pacing"
                       /\ UNCHANGED <<err, delay, prevDelay>>

\* fetch() resolves and the helper acts on the response.
Respond ==
  /\ rpc = "inflight"
  /\ \E res \in Responses(fn) :
       /\ lastOutcome' = res
       /\ allRetryable' = (allRetryable /\ IsRetryableFailure(res))
       /\ lastCallOk' = (ok(res) /\ res.body \in {"json", "data"})
       /\ sleptSince' = 0
       /\ IF fn = "gqlRequest" THEN gqlRequest(res) ELSE fetchJsonWithRetry(res)
  /\ UNCHANGED <<fn, maxRetries, tryNum, calls, notRetryVars>>

\* Faulty variant: the helper calls itself with the same tryNum.
WakeRetrySameTry ==
  /\ rpc = "retrySleep"
  /\ rpc' = "ready"
  /\ tryNum' = tryNum
  /\ sleptSince' = Min(sleptSince + delay, rateLimitMs)
  /\ UNCHANGED <<fn, maxRetries, calls, lastOutcome, err, delay, prevDelay,
                 allRetryable, lastCallOk, notRetryVars>>

\* The retry sleep ends: the helper calls itself with tryNum + 1.
WakeRetry ==
  /\ rpc = "retrySleep"
  /\ rpc' = "ready"
  /\ tryNum' = tryNum + 1
  /\ sleptSince' = Min(sleptSince + delay, rateLimitMs)
  /\ UNCHANGED <<fn, maxRetries, calls, lastOutcome, err, delay, prevDelay,
                 allRetryable, lastCallOk, notRetryVars>>

\* gqlRequest: await sleep(CONFIG.rateLimitMs + Math.random() * 50); return json.data
Pace ==
  /\ rpc = "pacing"
  /\ rpc' = "ok"
  /\ \E j \in Jitter(50) : sleptSince' = Min(sleptSince + rateLimitMs + j, rateLimitMs)
  /\ UNCHANGED <<fn, maxRetries, tryNum, calls, lastOutcome, err, delay, prevDelay,
                 allRetryable, lastCallOk, notRetryVars>>

NextRetry ==
  \/ Issue
  \/ Respond
  \/ WakeRetry
  \/ Pace

SpecRetry == InitRetry /\ [][NextRetry]_vars

\* Every fetch() resolves with some response and every sleep ends.
SpecRetryLive == InitRetry /\ [][NextRetry]_vars /\ WF_vars(NextRetry)

(***************************************************************************)
(* Properties of the retrying helpers                                      *)
(***************************************************************************)

\* C5: when every attempt yields a retryable failure, fetch() is invoked
\* exactly maxRetries times and the call fails carrying the last error.
C5_ExactlyMaxRetriesCalls ==
  (rpc = "failed" /\ allRetryable) =>
    /\ calls = maxRetries
    /\ err = lastOutcome

\* C6: a retry happens only after a retryable HTTP status or a GraphQL errors
\* response with a transient message; every other failure ends the call at
\* once.
C6_RetryOnlyWhenRetryable ==
  /\ rpc = "retrySleep" => IsRetryableFailure(lastOutcome)
  /\ (rpc = "failed" /\ ~IsRetryableFailure(lastOutcome)) => err = lastOutcome

\* The base, cap and jitter range of the two transport-level backoffs.
FetchBaseMs == 1000
FetchCapMs == 30000
FetchJitterMs == 1000
GqlBaseMs == 1500
GqlCapMs == 45000
GqlJitterMs == 1500

\* The delay the backoff formula gives at attempt n, for a jitter j.
BackoffFormula(base, cap, n, j) == Min(base * Pow2(n), cap) + j

\* C7: every retry delay is min(base * 2^attempt, cap) plus a jitter within
\* the jitter range, so no retry delay exceeds the (largest) cap plus the
\* (largest) jitter.
C7_DelayIsCappedBackoff ==
  rpc = "retrySleep" =>
    /\ (~ok(lastOutcome) /\ fn = "fetchJsonWithRetry") =>
         \E j \in 0..(FetchJitterMs - 1) :
           delay = BackoffFormula(FetchBaseMs, FetchCapMs, tryNum, j)
    /\ (~ok(lastOutcome) /\ fn = "gqlRequest") =>
         \E j \in 0..(GqlJitterMs - 1) :
           delay = BackoffFormula(GqlBaseMs, GqlCapMs, tryNum, j)
    /\ delay <= GqlCapMs + GqlJitterMs

\* The exponential term of the retry now slept is below its cap
\* (application-level retries have no cap in the code).
BelowCap ==
  IF ok(lastOutcome) THEN TRUE
  ELSE IF fn = "gqlRequest" THEN GqlBaseMs * Pow2(tryNum) < GqlCapMs
  ELSE FetchBaseMs * Pow2(tryNum) < FetchCapMs

\* C8: within one call, each retry delay is not smaller than the previous
\* one while the exponential term is below its cap.
C8_DelaysNonDecreasing ==
  (rpc = "retrySleep" /\ prevDelay >= 0 /\ BelowCap) => delay >= prevDelay


(***************************************************************************)
(* run(): stage 3, the vault depositor loop                                *)
(***************************************************************************)

\* const maxConsecutiveFailures = 5
maxConsecutiveFailures == 5

\* await sleep(ms) in run(), as seen by the pacing history.
Slept(ms) == Min(sleptSince + ms, rateLimitMs)

\* fetchVaultDepositors(vaultAddress), given how its gqlRequest ended: the
\* try/catch returns [] on any error, so the function never throws.
fetchVaultDepositors(result) ==
  IF result = "ok"
    THEN [threw |-> FALSE, value |-> "items"]
    ELSE [threw |-> FALSE, value |-> "empty"]

VaultIndexes == 0..(MaxVaults - 1)

\* run() has fetched curators and vaults and enters the vault loop.
InitRunVaults ==
  /\ GateIdle
  /\ PendleIdle
  /\ PageIdle
  /\ MarketsIdle
  /\ MatchIdle
  /\ HelperIdle
  /\ pc = "vaultTop"
  /\ testMode \in BOOLEAN
  /\ nVaults \in 0..MaxVaults
  /\ i = 0
  /\ failureCount = 0
  /\ consecutiveFailures = 0
  /\ vaultDepositors = [v \in VaultIndexes |-> "unset"]
  /\ failStreak = 0
  /\ failedVaults = {}
  /\ cooledDown = FALSE
  /\ fn = "none"
  /\ maxRetries \in 1..MaxRunRetries
  /\ tryNum = 1
  /\ rpc = "idle"
  /\ calls = 0
  /\ lastOutcome = NoOutcome
  /\ err = NoOutcome
  /\ delay = -1
  /\ prevDelay = -1
  /\ allRetryable = TRUE
  /\ lastCallOk = FALSE
  /\ sleptSince = 0

\* Top of a loop iteration: the circuit breaker, then the call of
\* fetchVaultDepositors(va), whose gqlRequest starts.
VaultBegin ==
  /\ pc = "vaultTop"
  /\ i < nVaults
  /\ IF consecutiveFailures >= maxConsecutiveFailures
       THEN /\ \E j \in Jitter(2000) : sleptSince' = Slept(5000 + j)
            /\ consecutiveFailures' = 0
            /\ cooledDown' = TRUE
       ELSE UNCHANGED <<sleptSince, consecutiveFailures, cooledDown>>
  /\ BeginCall("gqlRequest")
  /\ pc' = "vaultFetch"
  /\ UNCHANGED <<lastCallOk, testMode, nVaults, i, failureCount, vaultDepositors,
                 failStreak, failedVaults, outerVars, pendleVars>>

\* fetchVaultDepositors returned (or threw): the rest of the iteration.
VaultFetched ==
  /\ pc = "vaultFetch"
  /\ rpc \in {"ok", "failed"}
  /\ LET r == fetchVaultDepositors(rpc) IN
       IF ~r.threw
         THEN /\ vaultDepositors' = [vaultDepositors EXCEPT ![i] = r.value]
              /\ consecutiveFailures' = 0
              /\ \E j \in Jitter(100) : sleptSince' = Slept(rateLimitMs + j)
              /\ UNCHANGED failureCount
         ELSE /\ failureCount' = failureCount + 1
              /\ consecutiveFailures' = consecutiveFailures + 1
              /\ vaultDepositors' = [vaultDepositors EXCEPT ![i] = "empty"]
              /\ \E j \in Jitter(100), j2 \in Jitter(1000) :
                   sleptSince' = Slept((IF consecutiveFailures + 1 > 2
                                          THEN 1000 * (consecutiveFailures + 1) + j2
                                          ELSE 0) + rateLimitMs + j)
  /\ failStreak' = IF rpc = "failed" THEN failStreak + 1 ELSE 0
  /\ failedVaults' = IF rpc = "failed" THEN failedVaults \cup {i} ELSE failedVaults
  /\ cooledDown' = FALSE
  /\ IF testMode /\ i > 3
       THEN pc' = "vaultsDone" /\ UNCHANGED i
       ELSE pc' = "vaultTop" /\ i' = i + 1
  /\ EndCall
  /\ UNCHANGED <<lastCallOk, testMode, nVaults, outerVars, pendleVars>>

\* i < vaults.length fails: the loop ends.
VaultsExit ==
  /\ pc = "vaultTop"
  /\ i >= nVaults
  /\ pc' = "vaultsDone"
  /\ UNCHANGED <<vaultVars, pendleVars, outerVars, retryVars>>

NextRunVaults ==
  \/ VaultBegin
  \/ VaultFetched
  \/ VaultsExit
  \/ Issue
  \/ Respond
  \/ WakeRetry
  \/ Pace

SpecRunVaults == InitRunVaults /\ [][NextRunVaults]_vars

\* C10: when the depositor fetch has failed for 5 vaults in a row, the
\* extended cooldown sleep is taken before the next vault's fetch is issued;
\* and after a successful fetch the consecutive-failure counter is 0.
C10_BreakerTrips ==
  /\ (pc = "vaultFetch" /\ failStreak = maxConsecutiveFailures) => cooledDown
  /\ (pc = "vaultTop" /\ failStreak = 0) => consecutiveFailures = 0

\* Whether a stored depositor list carries an error annotation: the stored
\* values are bare arrays (the items, or []), so none does.
hasErrorNote(value) == value \notin {"unset", "items", "empty"}

\* C16: a failed depositor fetch for one vault is recorded as an empty list
\* together with an attached error annotation, and the remaining vaults are
\* still fetched.
C16_FailedVaultAnnotated ==
  /\ \A v \in failedVaults :
       vaultDepositors[v] \notin {"unset", "items"} /\ hasErrorNote(vaultDepositors[v])
  /\ (pc = "vaultsDone" /\ ~testMode) =>
       \A v \in 0..(nVaults - 1) : vaultDepositors[v] # "unset"

(***************************************************************************)
(* Cross-source matching: addresses, PT fields, the matching loop          *)
(***************************************************************************)

MaxListLen == 2

Chains == 1..MaxChains

\* A value that is not a string (a number), and null / undefined.
NotAString == "<number>"

Null == "null"

\* String.prototype.toLowerCase on the address strings and the text pieces
\* of the model.
toLowerCase(s) ==
  CASE s = "0xAB" -> "0xab"
    [] s = "0xCD" -> "0xcd"
    [] s = "PT-" -> "pt-"
    [] s = "PT " -> "pt "
    [] s = "Pendle" -> "pendle"
    [] OTHER -> s

\* normalizeAddress(addr): (addr || "").toLowerCase(), a TypeError when addr
\* is truthy and has no toLowerCase.
normalizeAddress(addr) ==
  IF addr = NotAString THEN [threw |-> TRUE, value |-> ""]
  ELSE [threw |-> FALSE, value |-> toLowerCase(IF addr = Null THEN "" ELSE addr)]

\* The pt field of an active-market entry: a string (given by its parts
\* between dashes), an object with address / token / id, or undefined.
PtField(type, parts, address, token, id) ==
  [type |-> type, parts |-> parts, address |-> address, token |-> token, id |-> id]

PtString(parts) == PtField("string", parts, Null, Null, Null)

PtObject(address, token, id) == PtField("object", <<>>, address, token, id)

PtUndefined == PtField("undefined", <<>>, Null, Null, Null)

\* extractPtAddressFromPendleActive(ptField)
extractPtAddressFromPendleActive(ptField) ==
  IF ptField.type = "string"
    THEN normalizeAddress(ptField.parts[Len(ptField.parts)])
  ELSE IF ptField.type = "object"
    THEN IF ptField.address # Null THEN normalizeAddress(ptField.address)
         ELSE IF ptField.token # Null THEN normalizeAddress(ptField.token)
         ELSE IF ptField.id # Null THEN normalizeAddress(ptField.id)
         ELSE [threw |-> FALSE, value |-> ""]
  ELSE [threw |-> FALSE, value |-> ""]

\* An entry m of an active-market list: m.pt and m.address.
ActiveEntry(pt, address) == [pt |-> pt, address |-> address]

NoEntry == ActiveEntry(PtUndefined, Null)

NoMatch == [threw |-> FALSE, found |-> FALSE, matching |-> NoEntry, matchedChain |-> 0]

MatchThrew == [threw |-> TRUE, found |-> FALSE, matching |-> NoEntry, matchedChain |-> 0]

\* Faulty variant: if (ptActive === ptAddr), without the test that the
\* extracted address is non-empty.
RECURSIVE findInListNoEmptyTest(_, _, _, _)
findInListNoEmptyTest(list, x, ptAddr, chain) ==
  IF x > Len(list) THEN NoMatch
  ELSE LET ptActive == extractPtAddressFromPendleActive(list[x].pt) IN
       IF ptActive.threw THEN MatchThrew
       ELSE IF ptActive.value = ptAddr
         THEN [threw |-> FALSE, found |-> TRUE, matching |-> list[x], matchedChain |-> chain]
         ELSE findInListNoEmptyTest(list, x + 1, ptAddr, chain)

\* for (const m of list): the first entry whose extracted address is
\* non-empty and equals ptAddr.
RECURSIVE findInList(_, _, _, _)
findInList(list, x, ptAddr, chain) ==
  IF x > Len(list) THEN NoMatch
  ELSE LET ptActive == extractPtAddressFromPendleActive(list[x].pt) IN
       IF ptActive.threw THEN MatchThrew
       ELSE IF ptActive.value # "" /\ ptActive.value = ptAddr
         THEN [threw |-> FALSE, found |-> TRUE, matching |-> list[x], matchedChain |-> chain]
         ELSE findInList(list, x + 1, ptAddr, chain)

\* for (const chain of CONFIG.chains): the first chain with a matching entry.
RECURSIVE matchInChains(_, _, _, _)
matchInChains(chain, n, lists, ptAddr) ==
  IF chain > n THEN NoMatch
  ELSE LET r == findInList(lists[chain], 1, ptAddr, chain) IN
       IF r.threw \/ r.found THEN r
       ELSE matchInChains(chain + 1, n, lists, ptAddr)

\* The matching of one PT market of run(): ptAddr, then the two loops.
matchPt(address, n, lists) ==
  LET ptAddr == normalizeAddress(address) IN
  IF ptAddr.threw THEN MatchThrew ELSE matchInChains(1, n, lists, ptAddr.value)

\* The pt fields and the lists the active-markets endpoint answers with.
PtFields ==
  {PtString(<<"1", "0xAB">>), PtString(<<"1", "0xcd">>), PtObject(Null, "0xAB", Null),
   PtUndefined, PtObject(NotAString, Null, Null)}

ActiveLists ==
  UNION {[1..n -> {ActiveEntry(p, "0xmarket") : p \in PtFields}] : n \in 0..MaxListLen}

\* entry.market?.collateralAsset?.address
CollateralAddresses == {"0xab", "0xAB", "0xCD", Null}

\* The matching loop is about to run for one collateral address.
InitMatch ==
  /\ GateIdle
  /\ RetryIdle
  /\ PageIdle
  /\ MarketsIdle
  /\ HelperIdle
  /\ VaultsIdle
  /\ pc = "idle"
  /\ nChains \in 1..MaxChains
  /\ c = 1
  /\ activeByChain \in [Chains -> ActiveLists]
  /\ \A ch \in Chains : ch > nChains => activeByChain[ch] = <<>>
  /\ k = 0
  /\ b = 0
  /\ collateral = <<>>
  /\ pendle = <<>>
  /\ marketData = "null"
  /\ positions = <<>>
  /\ fetchedFor = {}
  /\ collateralAddress \in CollateralAddresses
  /\ matchResult = <<>>
  /\ mpc = "input"

\* The matching loop of run() for one PT market.
Match ==
  /\ mpc = "input"
  /\ matchResult' = matchPt(collateralAddress, nChains, activeByChain)
  /\ mpc' = "done"
  /\ UNCHANGED <<collateralAddress, gateVars, retryVars, runVars, pageVars, marketVars,
                 helperVars>>

NextMatch == Match

SpecMatch == InitMatch /\ [][NextMatch]_vars

\* The pt fields whose address extracts to "" (an absent field, a string
\* ending in a dash), and a proper one.
PtFieldsWithEmpty == {PtUndefined, PtString(<<"1", "">>), PtString(<<"1", "0xAB">>)}

\* The matching loop is about to run for a market whose collateral address
\* is undefined or "".
InitMatchNoAddress ==
  /\ GateIdle
  /\ RetryIdle
  /\ PageIdle
  /\ MarketsIdle
  /\ HelperIdle
  /\ VaultsIdle
  /\ pc = "idle"
  /\ nChains \in 1..MaxChains
  /\ c = 1
  /\ \E lists \in [Chains -> UNION {[1..n -> {ActiveEntry(p, "0xmarket") : p \in PtFieldsWithEmpty}] :
                                     n \in 0..MaxListLen}] :
       /\ \A ch \in Chains : ch > nChains => lists[ch] = <<>>
       /\ activeByChain = lists
  /\ k = 0
  /\ b = 0
  /\ collateral = <<>>
  /\ pendle = <<>>
  /\ marketData = "null"
  /\ positions = <<>>
  /\ fetchedFor = {}
  /\ collateralAddress \in {Null, ""}
  /\ matchResult = <<>>
  /\ mpc = "input"

SpecMatchNoAddress == InitMatchNoAddress /\ [][NextMatch]_vars

\* The extracted token address of an entry, as the interface promises it:
\* the extractor's value, and "" when it fails.
ExtractedAddress(m) ==
  LET e == extractPtAddressFromPendleActive(m.pt) IN
  IF e.threw THEN "" ELSE e.value

\* The entries of a chain's list that carry the address, compared
\* case-insensitively.
Hits(chain, address) ==
  {x \in DOMAIN activeByChain[chain] :
     /\ ExtractedAddress(activeByChain[chain][x]) # ""
     /\ ExtractedAddress(activeByChain[chain][x]) = toLowerCase(address)}

\* The chains, in configured order, whose list carries the address.
HitChains(address) == {ch \in 1..nChains : Hits(ch, address) # {}}

SetMin(S) == CHOOSE x \in S : \A y \in S : x <= y

\* C20: the match for a collateral address is the first chain in configured
\* order whose active list contains an entry whose extracted token address
\* equals the collateral address case-insensitively, together with that
\* entry; if no chain has such an entry the result is a null match and no
\* exception is raised.
C20_FirstChainWins ==
  (mpc = "done" /\ collateralAddress # Null) =>
    /\ ~matchResult.threw
    /\ IF HitChains(collateralAddress) = {}
         THEN ~matchResult.found
         ELSE LET ch == SetMin(HitChains(collateralAddress)) IN
              /\ matchResult.found
              /\ matchResult.matchedChain = ch
              /\ matchResult.matching = activeByChain[ch][SetMin(Hits(ch, collateralAddress))]

(***************************************************************************)
(* run(): stage 4, the Pendle mapping                                      *)
(***************************************************************************)

MaxPendleMarkets == 2

NoMatchNote == "No matching Pendle market found for this PT token"

\* Faulty variant: the else branch leaves the note empty.
PendleEntryNoNote(chain, address, data, history) ==
  [chainId |-> chain, marketAddress |-> address, marketData |-> data,
   historicalData |-> history, note |-> ""]

\* entry.pendle of a PT market: chainId (0: null), marketAddress, marketData,
\* historicalData, and the note of the else branch.
PendleEntry(chain, address, data, history) ==
  [chainId |-> chain, marketAddress |-> address, marketData |-> data,
   historicalData |-> history, note |-> IF chain = 0 THEN NoMatchNote ELSE ""]

\* entry.pendle was never assigned (undefined).
NoPendle ==
  [chainId |-> -1, marketAddress |-> Null, marketData |-> "null",
   historicalData |-> "null", note |-> ""]

\* The row of the pendle_pt_matches sheet for an entry: entry.pendle || {},
\* matched: !!pendle.marketAddress, note: pendle.note || "".
ptMatchRow(p) == [matched |-> p.marketAddress # Null, note |-> p.note]

\* entry.market.collateralAsset: the verdict of isLikelyPTTokenSymbolOrName
\* on its symbol and name, and its address.
CollateralAsset(pt, address) == [pt |-> pt, address |-> address]

\* The active-market lists and the collateral addresses of this stage.
RunActiveLists ==
  {<<>>,
   <<ActiveEntry(PtString(<<"1", "0xAB">>), "0xmarket")>>,
   <<ActiveEntry(PtString(<<"1", "0xAB">>), Null)>>,
   <<ActiveEntry(PtObject(NotAString, Null, Null), "0xmarket")>>}

RunCollateralAddresses == {"0xab", "0xCD"}

\* Faulty variant: the 404 is rethrown like any other error.
pendleGetUserDashboardPositionsRethrows(result, e) ==
  IF result = "ok" THEN [threw |-> FALSE, value |-> "positions"]
  ELSE [threw |-> TRUE, value |-> "none"]

\* pendleGetUserDashboardPositions, given how its fetchJsonWithRetry ended:
\* the positions, the valid empty result of a 404, or the error rethrown.
pendleGetUserDashboardPositions(result, e) ==
  IF result = "ok" THEN [threw |-> FALSE, value |-> "positions"]
  ELSE IF e.status = 404 THEN [threw |-> FALSE, value |-> "notFound"]
  ELSE [threw |-> TRUE, value |-> "none"]

\* run() has finished the vault loop and enters the Pendle stage.
InitRunPendle ==
  /\ GateIdle
  /\ VaultsIdle
  /\ PageIdle
  /\ MarketsIdle
  /\ MatchIdle
  /\ HelperIdle
  /\ pc = "chainTop"
  /\ nChains \in 1..MaxChains
  /\ c = 1
  /\ activeByChain = [ch \in Chains |-> <<>>]
  /\ k = 0
  /\ b = 0
  /\ collateral = <<>>
  /\ pendle = <<>>
  /\ fetchedFor = {}
  /\ marketData = "null"
  /\ positions = <<>>
  /\ fn = "none"
  /\ maxRetries \in 1..MaxRunRetries
  /\ tryNum = 1
  /\ rpc = "idle"
  /\ calls = 0
  /\ lastOutcome = NoOutcome
  /\ err = NoOutcome
  /\ delay = -1
  /\ prevDelay = -1
  /\ allRetryable = TRUE
  /\ lastCallOk = FALSE
  /\ sleptSince = 0

\* for (const chain of CONFIG.chains): pendleGetActiveMarkets(chain) starts.
ChainBegin ==
  /\ pc = "chainTop"
  /\ c <= nChains
  /\ BeginCall("fetchJsonWithRetry")
  /\ pc' = "activeFetch"
  /\ UNCHANGED <<lastCallOk, sleptSince, pendleVars, vaultVars, outerVars>>

\* activeByChain[chain] = act (or [] in the catch); await sleep(rateLimitMs).
ChainFetched ==
  /\ pc = "activeFetch"
  /\ rpc \in {"ok", "failed"}
  /\ \E act \in IF rpc = "ok" THEN RunActiveLists ELSE {<<>>} :
       activeByChain' = [activeByChain EXCEPT ![c] = act]
  /\ sleptSince' = Slept(rateLimitMs)
  /\ c' = c + 1
  /\ pc' = "chainTop"
  /\ EndCall
  /\ UNCHANGED <<lastCallOk, nChains, k, b, collateral, pendle, fetchedFor, marketData,
                 positions, vaultVars, outerVars>>

ChainsExit ==
  /\ pc = "chainTop"
  /\ c > nChains
  /\ pc' = "ptTop"
  /\ UNCHANGED <<pendleVars, vaultVars, outerVars, retryVars>>

\* The match of the PT market being handled.
CurrentMatch == matchPt(collateral[Len(collateral)].address, nChains, activeByChain)

\* The next market is not classified as a PT market: it never enters
\* ptIndexes and its entry.pendle stays unassigned.
NonPtSeen ==
  /\ pc = "ptTop"
  /\ k < MaxPendleMarkets
  /\ collateral' = Append(collateral, CollateralAsset(FALSE, "0xab"))
  /\ pendle' = Append(pendle, NoPendle)
  /\ k' = k + 1
  /\ UNCHANGED <<pc, nChains, c, activeByChain, b, fetchedFor, marketData, positions,
                 vaultVars, outerVars, retryVars>>

\* The next PT market has no matching active market: the else branch.
PtUnmatched ==
  /\ pc = "ptTop"
  /\ k < MaxPendleMarkets
  /\ \E address \in RunCollateralAddresses :
       LET r == matchPt(address, nChains, activeByChain) IN
         /\ ~r.threw /\ ~r.found
         /\ collateral' = Append(collateral, CollateralAsset(TRUE, address))
  /\ pendle' = Append(pendle, PendleEntry(0, Null, "null", "null"))
  /\ k' = k + 1
  /\ UNCHANGED <<pc, nChains, c, activeByChain, b, fetchedFor, marketData, positions,
                 vaultVars, outerVars, retryVars>>

\* The matching loop of the next PT market throws: run() rejects.
PtMatchThrows ==
  /\ pc = "ptTop"
  /\ k < MaxPendleMarkets
  /\ \E address \in RunCollateralAddresses :
       /\ matchPt(address, nChains, activeByChain).threw
       /\ collateral' = Append(collateral, CollateralAsset(TRUE, address))
  /\ pc' = "fatal"
  /\ UNCHANGED <<nChains, c, activeByChain, k, b, pendle, fetchedFor, marketData,
                 positions, vaultVars, outerVars, retryVars>>

\* The next PT market matches an entry of an active list; with a
\* pendleMarketAddress, pendleGetMarketData starts.
PtMatched ==
  /\ pc = "ptTop"
  /\ k < MaxPendleMarkets
  /\ marketData' = "null"
  /\ positions' = <<>>
  /\ b' = 0
  /\ \E address \in RunCollateralAddresses :
       LET r == matchPt(address, nChains, activeByChain) IN
         /\ ~r.threw /\ r.found
         /\ collateral' = Append(collateral, CollateralAsset(TRUE, address))
         /\ IF r.matching.address # Null
              THEN /\ BeginCall("fetchJsonWithRetry")
                   /\ pc' = "dataFetch"
                   /\ UNCHANGED pendle
              ELSE /\ pendle' = Append(pendle, PendleEntry(r.matchedChain, Null, "null", "null"))
                   /\ pc' = "borrowerTop"
                   /\ UNCHANGED retryVars
  /\ UNCHANGED <<lastCallOk, sleptSince, nChains, c, activeByChain, k, fetchedFor,
                 vaultVars, outerVars>>

\* marketData = await pendleGetMarketData(...); await sleep(rateLimitMs);
\* then pendleGetMarketHistory starts -- or the catch, and entry.pendle is set.
DataFetched ==
  /\ pc = "dataFetch"
  /\ rpc \in {"ok", "failed"}
  /\ IF rpc = "ok"
       THEN /\ marketData' = "data"
            /\ sleptSince' = Slept(rateLimitMs)
            /\ BeginCall("fetchJsonWithRetry")
            /\ pc' = "historyFetch"
            /\ UNCHANGED pendle
       ELSE /\ pendle' = Append(pendle, PendleEntry(CurrentMatch.matchedChain,
                                                   CurrentMatch.matching.address,
                                                   "null", "null"))
            /\ pc' = "borrowerTop"
            /\ EndCall
            /\ UNCHANGED <<marketData, sleptSince>>
  /\ UNCHANGED <<lastCallOk, nChains, c, activeByChain, k, b, collateral, fetchedFor,
                 positions, vaultVars, outerVars>>

\* historicalData = await pendleGetMarketHistory(...) -- or the catch; then
\* entry.pendle is set and the borrower loop begins.
HistoryFetched ==
  /\ pc = "historyFetch"
  /\ rpc \in {"ok", "failed"}
  /\ pendle' = Append(pendle, PendleEntry(CurrentMatch.matchedChain,
                                          CurrentMatch.matching.address, marketData,
                                          IF rpc = "ok" THEN "data" ELSE "null"))
  /\ pc' = "borrowerTop"
  /\ EndCall
  /\ UNCHANGED <<lastCallOk, sleptSince, nChains, c, activeByChain, k, b, collateral,
                 fetchedFor, marketData, positions, vaultVars, outerVars>>

\* if (!user) continue;
BorrowerSkip ==
  /\ pc = "borrowerTop"
  /\ b < MaxBorrowers
  /\ b' = b + 1
  /\ UNCHANGED <<pc, nChains, c, activeByChain, k, collateral, pendle, fetchedFor,
                 marketData, positions, vaultVars, outerVars, retryVars>>

\* pendleGetUserDashboardPositions(user, CONFIG.pendleMinUsd) starts.
BorrowerBegin ==
  /\ pc = "borrowerTop"
  /\ b < MaxBorrowers
  /\ BeginCall("fetchJsonWithRetry")
  /\ fetchedFor' = fetchedFor \cup {k + 1}
  /\ pc' = "positionsFetch"
  /\ UNCHANGED <<lastCallOk, sleptSince, nChains, c, activeByChain, k, b, collateral,
                 pendle, marketData, positions, vaultVars, outerVars>>

\* b.pendleDashboardPositions = pos (or the error of the catch);
\* await sleep(rateLimitMs).
PositionsFetched ==
  /\ pc = "positionsFetch"
  /\ rpc \in {"ok", "failed"}
  /\ LET r == pendleGetUserDashboardPositions(rpc, err) IN
       positions' = Append(positions, IF r.threw THEN "error" ELSE r.value)
  /\ sleptSince' = Slept(rateLimitMs)
  /\ b' = b + 1
  /\ pc' = "borrowerTop"
  /\ EndCall
  /\ UNCHANGED <<lastCallOk, nChains, c, activeByChain, k, collateral, pendle,
                 fetchedFor, marketData, vaultVars, outerVars>>

\* entry.topBorrowers is exhausted: the next PT market. The iteration's
\* locals (marketData, the borrower cursor and its results) go out of scope.
BorrowersExit ==
  /\ pc = "borrowerTop"
  /\ k' = k + 1
  /\ b' = 0
  /\ marketData' = "null"
  /\ positions' = <<>>
  /\ pc' = "ptTop"
  /\ UNCHANGED <<nChains, c, activeByChain, collateral, pendle, fetchedFor,
                 vaultVars, outerVars, retryVars>>

\* ptIndexes is exhausted.
PtExit ==
  /\ pc = "ptTop"
  /\ pc' = "done"
  /\ UNCHANGED <<pendleVars, vaultVars, outerVars, retryVars>>

NextRunPendle ==
  \/ ChainBegin
  \/ ChainFetched
  \/ ChainsExit
  \/ NonPtSeen
  \/ PtUnmatched
  \/ PtMatchThrows
  \/ PtMatched
  \/ DataFetched
  \/ HistoryFetched
  \/ BorrowerSkip
  \/ BorrowerBegin
  \/ PositionsFetched
  \/ BorrowersExit
  \/ PtExit
  \/ Issue
  \/ Respond
  \/ WakeRetry

SpecRunPendle == InitRunPendle /\ [][NextRunPendle]_vars

\* The same stage run with --max-retries 1: Math.max(1, ...) leaves the helper
\* one attempt per call, so a call either returns or throws and never sleeps
\* to retry.
InitRunPendleOnce ==
  /\ InitRunPendle
  /\ maxRetries = 1

NextRunPendleOnce ==
  \/ ChainBegin
  \/ ChainFetched
  \/ ChainsExit
  \/ NonPtSeen
  \/ PtUnmatched
  \/ PtMatchThrows
  \/ PtMatched
  \/ DataFetched
  \/ HistoryFetched
  \/ BorrowerSkip
  \/ BorrowerBegin
  \/ PositionsFetched
  \/ BorrowersExit
  \/ PtExit
  \/ Issue
  \/ Respond

SpecRunPendleOnce == InitRunPendleOnce /\ [][NextRunPendleOnce]_vars

\* The borrower loop of one matched PT market on its own: entry.pendle has
\* just been assigned, after the snapshot fetch failed, after the history
\* fetch failed, or after both returned.
InitBorrowerLoop ==
  /\ GateIdle
  /\ VaultsIdle
  /\ PageIdle
  /\ MarketsIdle
  /\ MatchIdle
  /\ HelperIdle
  /\ pc = "borrowerTop"
  /\ nChains = 1
  /\ c = 2
  /\ activeByChain = [ch \in Chains |->
                        IF ch = 1
                          THEN <<ActiveEntry(PtString(<<"1", "0xAB">>), "0xmarket")>>
                          ELSE <<>>]
  /\ k = 0
  /\ b = 0
  /\ collateral = <<CollateralAsset(TRUE, "0xab")>>
  /\ \E fetched \in {<<"null", "null">>, <<"data", "null">>, <<"data", "data">>} :
       /\ marketData = fetched[1]
       /\ pendle = <<PendleEntry(1, "0xmarket", fetched[1], fetched[2])>>
       /\ lastCallOk = (fetched[2] = "data")
  /\ fetchedFor = {}
  /\ positions = <<>>
  /\ fn = "none"
  /\ maxRetries \in 1..MaxRunRetries
  /\ tryNum = 1
  /\ rpc = "idle"
  /\ calls = 0
  /\ lastOutcome = NoOutcome
  /\ err = NoOutcome
  /\ delay = -1
  /\ prevDelay = -1
  /\ allRetryable = TRUE
  /\ sleptSince = 0

NextBorrowerLoop ==
  \/ BorrowerSkip
  \/ BorrowerBegin
  \/ PositionsFetched
  \/ BorrowersExit
  \/ Issue
  \/ Respond
  \/ WakeRetry

SpecBorrowerLoop == InitBorrowerLoop /\ [][NextBorrowerLoop]_vars

\* C9: when a network call is issued and the previous network call of the
\* control flow succeeded, at least the configured inter-request delay has
\* been slept in between.
C9_PacedAfterSuccess ==
  (rpc = "inflight" /\ lastCallOk) => sleptSince >= rateLimitMs

(***************************************************************************)
(* Paginated fetches                                                       *)
(***************************************************************************)

MaxPageSize == 3
MaxItems == 5
MaxLimit == 3

\* The page calls of one fetch are cut off here (a fetch may loop forever).
MaxPageCalls == MaxItems + 2

Max(x, y) == IF x >= y THEN x ELSE y

Fetchers == {"fetchAllMorphoMarkets", "fetchAllUserTransactionsForMarket",
             "fetchCuratorsAndAllVaults", "getAllMarkets", "getUserTransactions"}

\* pageInfo.countTotal is missing from the response.
Absent == -1

\* The items a page call with offset `offset` returns when it returns n of
\* them: the provider's items offset+1 .. offset+n.
Page(offset, n) == [j \in 1..n |-> offset + j]

\* The page the provider owes for the offset: its next slice, with its total.
IsNextSlice(offset, n, ct) ==
  /\ n = Min(first, Max(provTotal - offset, 0))
  /\ ct = provTotal

\* page.pageInfo?.countTotal ?? fallback
countTotal(ct, fallback) == IF ct = Absent THEN fallback ELSE ct

\* all.slice(0, n)
slice(s, n) == SubSeq(s, 1, Min(n, Len(s)))

\* One iteration of the loop of fetchAllMorphoMarkets, and its return value.
fetchAllMorphoMarkets(items, ct) ==
  LET all2 == all \o items
      total2 == IF total = -1 THEN countTotal(ct, Len(items)) ELSE total
      skip2 == skip + Len(items)
  IN [all |-> all2, total |-> total2, skip |-> skip2,
      more |-> ~(Len(items) = 0 \/ skip2 >= total2),
      value |-> IF marketsLimit # 0 THEN slice(all2, marketsLimit) ELSE all2]

\* Faulty variant: the loop does not test the total.
fetchAllUserTransactionsForMarketNoTotal(items, ct) ==
  LET out == all \o items
      total2 == IF total = -1 THEN countTotal(ct, Len(items)) ELSE total
      skip2 == skip + Len(items)
  IN [all |-> out, total |-> total2, skip |-> skip2,
      more |-> ~(Len(items) = 0),
      value |-> out]

\* One iteration of the loop of fetchAllUserTransactionsForMarket.
fetchAllUserTransactionsForMarket(items, ct) ==
  LET out == all \o items
      total2 == IF total = -1 THEN countTotal(ct, Len(items)) ELSE total
      skip2 == skip + Len(items)
  IN [all |-> out, total |-> total2, skip |-> skip2,
      more |-> ~(Len(items) = 0 \/ skip2 >= total2),
      value |-> out]

\* The vault pages of fetchCuratorsAndAllVaults: the first page, then one
\* iteration of while (vSkip < total), which re-reads the total of each page.
fetchCuratorsAndAllVaults(items, ct) ==
  LET allVaults == all \o items
      vSkip == skip + Len(items)
      total2 == IF pageCalls = 0 THEN countTotal(ct, Len(allVaults))
                                 ELSE countTotal(ct, vSkip)
  IN [all |-> allVaults, total |-> total2, skip |-> vSkip,
      more |-> vSkip < total2,
      value |-> allVaults]

\* Faulty variant: hasMore holds after any non-empty page.
getAllMarketsAlwaysMore(items, ct) ==
  LET allMarkets == all \o items
  IN [all |-> allMarkets, total |-> total, skip |-> skip + first,
      more |-> Len(items) > 0,
      value |-> allMarkets]

\* MorphoDataBuilder.getAllMarkets: hasMore = markets.length === batchSize;
\* skip += batchSize.  countTotal is queried and not read.
getAllMarkets(items, ct) ==
  LET allMarkets == all \o items
  IN [all |-> allMarkets, total |-> total, skip |-> skip + first,
      more |-> Len(items) = first,
      value |-> allMarkets]

\* MorphoDataBuilder.getUserTransactions: a short page or the reported total
\* ends the loop (a missing countTotal compares false); skip += batchSize.
getUserTransactions(items, ct) ==
  LET allTransactions == all \o items
  IN [all |-> allTransactions, total |-> total, skip |-> skip + first,
      more |-> ~(Len(items) < first \/ (ct # Absent /\ Len(allTransactions) >= ct)),
      value |-> allTransactions]

LoopStep(f, items, ct) ==
  CASE f = "fetchAllMorphoMarkets" -> fetchAllMorphoMarkets(items, ct)
    [] f = "fetchAllUserTransactionsForMarket" -> fetchAllUserTransactionsForMarket(items, ct)
    [] f = "fetchCuratorsAndAllVaults" -> fetchCuratorsAndAllVaults(items, ct)
    [] f = "getAllMarkets" -> getAllMarkets(items, ct)
    [] f = "getUserTransactions" -> getUserTransactions(items, ct)

\* A paginated fetch is called: page size, cap and provider are drawn here.
InitPaginate ==
  /\ GateIdle
  /\ RetryIdle
  /\ RunIdle
  /\ MarketsIdle
  /\ MatchIdle
  /\ HelperIdle
  /\ pfn \in Fetchers
  /\ first \in 1..MaxPageSize
  /\ marketsLimit \in IF pfn = "fetchAllMorphoMarkets" THEN 0..MaxLimit ELSE {0}
  /\ provTotal \in 0..MaxItems
  /\ skip = 0
  /\ all = <<>>
  /\ total = -1
  /\ ppc = "call"
  /\ pageCalls = 0
  /\ lastLen = 0
  /\ stopSeen = FALSE
  /\ wellFormed = TRUE
  /\ returned = <<>>

\* One page call returns n items and a reported total, and the loop body
\* runs: accumulate, advance the offset, decide whether to go on.
PageReturns ==
  /\ ppc = "call"
  /\ pageCalls < MaxPageCalls
  /\ \E n \in 0..first, ct \in {Absent} \cup 0..MaxItems :
       /\ skip + n <= MaxItems
       /\ LET r == LoopStep(pfn, Page(skip, n), ct) IN
            /\ all' = r.all
            /\ total' = r.total
            /\ skip' = r.skip
            /\ ppc' = IF r.more THEN "call" ELSE "done"
            /\ returned' = IF r.more THEN returned ELSE r.value
            /\ stopSeen' = (stopSeen \/ n < first \/ (ct # Absent /\ Len(r.all) >= ct))
       /\ lastLen' = n
       /\ wellFormed' = (wellFormed /\ IsNextSlice(skip, n, ct))
  /\ pageCalls' = pageCalls + 1
  /\ UNCHANGED <<pfn, first, marketsLimit, provTotal, notPageVars>>

\* The page call throws (gqlRequest / query gave up): the fetch throws.
PageThrows ==
  /\ ppc = "call"
  /\ ppc' = "threw"
  /\ UNCHANGED <<pfn, first, marketsLimit, provTotal, skip, all, total, pageCalls,
                 lastLen, stopSeen, wellFormed, returned, notPageVars>>

NextPaginate ==
  \/ PageReturns
  \/ PageThrows

SpecPaginate == InitPaginate /\ [][NextPaginate]_vars

\* One page call returns any number of items, also more than asked for (a
\* provider that does not honour `first`), and the loop body runs.
PageReturnsAnyLength ==
  /\ ppc = "call"
  /\ pageCalls < MaxPageCalls
  /\ \E n \in 0..(first + 1), ct \in {Absent} \cup 0..MaxItems :
       /\ skip + n <= MaxItems
       /\ LET r == LoopStep(pfn, Page(skip, n), ct) IN
            /\ all' = r.all
            /\ total' = r.total
            /\ skip' = r.skip
            /\ ppc' = IF r.more THEN "call" ELSE "done"
            /\ returned' = IF r.more THEN returned ELSE r.value
            /\ stopSeen' = (stopSeen \/ n < first \/ (ct # Absent /\ Len(r.all) >= ct))
       /\ lastLen' = n
       /\ wellFormed' = (wellFormed /\ IsNextSlice(skip, n, ct))
  /\ pageCalls' = pageCalls + 1
  /\ UNCHANGED <<pfn, first, marketsLimit, provTotal, notPageVars>>

NextPaginateAnyLength ==
  \/ PageReturnsAnyLength
  \/ PageThrows

SpecPaginateAnyLength == InitPaginate /\ [][NextPaginateAnyLength]_vars

\* The fetch is about to make a further page call.
CallsAgain == ppc = "call" /\ pageCalls > 0

\* C11: every paginated fetch terminates when a page returns zero items:
\* after an empty page no further page is requested.
C11_StopsOnEmptyPage == CallsAgain => lastLen > 0

\* Math.ceil(x / y) and Math.floor(x / y)
Ceil(x, y) == (x + y - 1) \div y

Floor(x, y) == x \div y

\* The fetch has returned, uncapped, after well-formed pages only.
ReturnedWellFormed == ppc = "done" /\ wellFormed /\ marketsLimit = 0

C13_StopsAtShortPageOrTotal == CallsAgain => ~stopSeen

\* C13 (amended): fetchAllMorphoMarkets and fetchAllUserTransactionsForMarket
\* stop as soon as a page is empty or the accumulated count reaches the total
\* their first page reported (a short non-empty page does not stop them);
\* fetchCuratorsAndAllVaults stops as soon as the accumulated count reaches
\* the total of the latest page; getUserTransactions stops as soon as a page
\* is short or the accumulated count reaches that page's total; getAllMarkets
\* stops as soon as a page is short.  After such a page no page call is made.
C13_StopsAtOwnCondition ==
  CallsAgain =>
    CASE pfn \in {"fetchAllMorphoMarkets", "fetchAllUserTransactionsForMarket"} ->
           lastLen > 0 /\ Len(all) < total
      [] pfn = "fetchCuratorsAndAllVaults" -> Len(all) < total
      [] pfn = "getUserTransactions" -> ~stopSeen
      [] pfn = "getAllMarkets" -> lastLen = first

\* A transaction fetch went past a short page and stopped at the total of
\* its first page.
C13_Witness_StoppedAtTotal ==
  /\ pfn = "fetchAllUserTransactionsForMarket"
  /\ ppc = "done"
  /\ pageCalls = 3
  /\ stopSeen
  /\ lastLen > 0
  /\ Len(all) = total

\* C14: with a market cap L and T markets at the provider, the market fetch
\* returns the first min(L, T) markets and requests no page after the page
\* at which the accumulated count first reaches or exceeds L.
C14_CapStopsPaging ==
  (pfn = "fetchAllMorphoMarkets" /\ marketsLimit # 0) =>
    /\ CallsAgain => Len(all) < marketsLimit
    /\ (ppc = "done" /\ wellFormed) => returned = Page(0, Min(marketsLimit, provTotal))

(***************************************************************************)
(* run(): stages 1 to 3a (listings and the per-market tasks) and its end   *)
(***************************************************************************)

MaxMarkets == 2

\* The top borrowers a market can have: for each, whether b.user.address is set.
BorrowerLists ==
  UNION {[1..n -> BOOLEAN] : n \in 0..MaxBorrowers}

\* An element of marketsWithBorrowers / allMarketsData ("none": no error field).
MarketEntry(m, borrowers, error) ==
  [market |-> m, topBorrowers |-> borrowers, error |-> error]

\* Faulty variant: every task is started at once, whatever the concurrency.
mapLimitUnbounded(n) ==
  [active |-> n,
   queue |-> <<>>,
   st |-> [t \in Tasks |-> IF t <= n THEN "scheduled" ELSE "new"],
   startOrder |-> [j \in 1..n |-> j],
   wasQueued |-> {}]

\* The gate after markets.map((mkt) => limit(...)) over n markets: the
\* executors of Submit run back to back, before any microtask.
mapLimit(n) ==
  LET started == Min(n, concurrency) IN
  [active |-> started,
   queue |-> [j \in 1..(n - started) |-> started + j],
   st |-> [t \in Tasks |-> IF t <= started THEN "scheduled"
                           ELSE IF t <= n THEN "queued" ELSE "new"],
   startOrder |-> [j \in 1..started |-> j],
   wasQueued |-> {t \in Tasks : started < t /\ t <= n}]

\* Faulty variant of skipNoAddress: the fetch of the next borrower with an
\* address is not awaited either, its entry is pushed at once.
RECURSIVE skipNoAddressNorNext(_, _)
skipNoAddressNorNext(enr, tb) ==
  IF Len(enr) < Len(tb)
    THEN IF tb[Len(enr) + 1]
           THEN Append(enr, "txs")
           ELSE skipNoAddressNorNext(Append(enr, "noAddress"), tb)
    ELSE enr

\* for (const b of topBorrowers): the iterations that need no await, i.e.
\* the borrowers without an address, whose transactions are [].
RECURSIVE skipNoAddress(_, _)
skipNoAddress(enr, tb) ==
  IF Len(enr) < Len(tb) /\ ~tb[Len(enr) + 1]
    THEN skipNoAddress(Append(enr, "noAddress"), tb)
    ELSE enr

\* node starts run().
InitRun ==
  /\ RetryIdle
  /\ PageIdle
  /\ VaultsIdle
  /\ PendleIdle
  /\ MarketsIdle
  /\ MatchIdle
  /\ HelperIdle
  /\ pc = "listMarkets"
  /\ concurrency \in 1..MaxConcurrency
  /\ queue = <<>>
  /\ active = 0
  /\ st = [t \in Tasks |-> "new"]
  /\ outcome = [t \in Tasks |-> "none"]
  /\ promise = [t \in Tasks |-> "pending"]
  /\ startOrder = <<>>
  /\ wasQueued = {}

\* run() rejects: run().catch logs the error and calls process.exit(1).
Fatal ==
  /\ pc' = "fatal"
  /\ exitStatus' = 1

\* const markets = await fetchAllMorphoMarkets(); then markets.map(limit).
MarketsListed ==
  /\ pc = "listMarkets"
  /\ \E n \in 0..Min(MaxMarkets, MaxTasks) :
       /\ nMarkets' = n
       /\ LET g == mapLimit(n) IN
            /\ active' = g.active
            /\ queue' = g.queue
            /\ st' = g.st
            /\ startOrder' = g.startOrder
            /\ wasQueued' = g.wasQueued
  /\ pc' = "marketStage"
  /\ UNCHANGED <<concurrency, outcome, promise, topBorrowers, tpc, enriched, failed,
                 marketsWithBorrowers, allMarketsData, mi, listingFailed, exitStatus,
                 exported, retryVars, pageVars, matchVars, helperVars, vaultVars, pendleVars>>

\* fetchAllMorphoMarkets() rejects.
MarketsListingThrows ==
  /\ pc = "listMarkets"
  /\ listingFailed' = TRUE
  /\ Fatal
  /\ UNCHANGED <<nMarkets, topBorrowers, tpc, enriched, failed, marketsWithBorrowers,
                 allMarketsData, mi, exported, gateVars, retryVars, pageVars,
                 matchVars, helperVars, vaultVars, pendleVars>>

\* Faulty variant: enriched is one array shared by all the tasks.
TaskProceedsShared(t, tb, enr) ==
  /\ enriched' = [u \in DOMAIN enriched |-> enr]
  /\ IF Len(enr) = Len(tb)
       THEN /\ tpc' = [tpc EXCEPT ![t] = "returned"]
            /\ outcome' = [outcome EXCEPT ![t] = "ok"]
            /\ st' = [st EXCEPT ![t] = "settled"]
       ELSE /\ tpc' = [tpc EXCEPT ![t] = "txs"]
            /\ UNCHANGED <<outcome, st>>
  /\ UNCHANGED failed

\* The async task of market t returns { market, topBorrowers: enriched } or
\* goes on to the next awaited transaction fetch.
TaskProceeds(t, tb, enr) ==
  /\ enriched' = [enriched EXCEPT ![t] = enr]
  /\ IF Len(enr) = Len(tb)
       THEN /\ tpc' = [tpc EXCEPT ![t] = "returned"]
            /\ outcome' = [outcome EXCEPT ![t] = "ok"]
            /\ st' = [st EXCEPT ![t] = "settled"]
       ELSE /\ tpc' = [tpc EXCEPT ![t] = "txs"]
            /\ UNCHANGED <<outcome, st>>
  /\ UNCHANGED failed

\* An awaited fetch of the task of market t rejects: nothing in the task
\* catches it, so the task's promise rejects.
TaskThrows(t) ==
  /\ tpc' = [tpc EXCEPT ![t] = "threw"]
  /\ outcome' = [outcome EXCEPT ![t] = "err"]
  /\ st' = [st EXCEPT ![t] = "settled"]
  /\ failed' = failed \cup {t}
  /\ UNCHANGED enriched

\* const topBorrowers = await fetchTopBorrowersForMarket(mkt.uniqueKey)
TopBorrowersFetched(t) ==
  /\ pc = "marketStage"
  /\ st[t] = "running"
  /\ tpc[t] = "top"
  /\ \/ \E tb \in BorrowerLists :
          /\ topBorrowers' = [topBorrowers EXCEPT ![t] = tb]
          /\ TaskProceeds(t, tb, skipNoAddress(<<>>, tb))
     \/ /\ TaskThrows(t)
        /\ UNCHANGED topBorrowers
  /\ UNCHANGED <<concurrency, queue, active, promise, startOrder, wasQueued, nMarkets,
                 marketsWithBorrowers, allMarketsData, mi, listingFailed, exitStatus,
                 exported, pc, retryVars, pageVars, matchVars, helperVars, vaultVars, pendleVars>>

\* const txs = await fetchAllUserTransactionsForMarket(userAddress, ...);
\* enriched.push({ ...b, transactions: txs })
TransactionsFetched(t) ==
  /\ pc = "marketStage"
  /\ st[t] = "running"
  /\ tpc[t] = "txs"
  /\ \/ TaskProceeds(t, topBorrowers[t],
                     skipNoAddress(Append(enriched[t], "txs"), topBorrowers[t]))
     \/ TaskThrows(t)
  /\ UNCHANGED <<concurrency, queue, active, promise, startOrder, wasQueued, nMarkets,
                 topBorrowers, marketsWithBorrowers, allMarketsData, mi, listingFailed,
                 exitStatus, exported, pc, retryVars, pageVars, matchVars, helperVars, vaultVars, pendleVars>>

\* Promise.all resolves once every task's promise has: the entries, in the
\* order of markets.
AllResolved ==
  /\ pc = "marketStage"
  /\ \A t \in 1..nMarkets : promise[t] = "resolved"
  /\ marketsWithBorrowers' = [t \in 1..nMarkets |-> MarketEntry(t, enriched[t], "none")]
  /\ pc' = "listVaults"
  /\ UNCHANGED <<nMarkets, topBorrowers, tpc, enriched, failed, allMarketsData, mi,
                 listingFailed, exitStatus, exported, gateVars, retryVars, pageVars,
                 matchVars, helperVars, vaultVars, pendleVars>>

\* Promise.all rejects as soon as one task's promise has: run() rejects.
AllRejected ==
  /\ pc = "marketStage"
  /\ \E t \in 1..nMarkets : promise[t] = "rejected"
  /\ Fatal
  /\ UNCHANGED <<nMarkets, topBorrowers, tpc, enriched, failed, marketsWithBorrowers,
                 allMarketsData, mi, listingFailed, exported, gateVars, retryVars,
                 pageVars, matchVars, helperVars, vaultVars, pendleVars>>

\* const { curators, vaults } = await fetchCuratorsAndAllVaults()
VaultsListed ==
  /\ pc = "listVaults"
  /\ pc' = "laterStages"
  /\ UNCHANGED <<marketVars, gateVars, retryVars, pageVars, matchVars, helperVars, vaultVars, pendleVars>>

\* fetchCuratorsAndAllVaults() rejects.
VaultsListingThrows ==
  /\ pc = "listVaults"
  /\ listingFailed' = TRUE
  /\ Fatal
  /\ UNCHANGED <<nMarkets, topBorrowers, tpc, enriched, failed, marketsWithBorrowers,
                 allMarketsData, mi, exported, gateVars, retryVars, pageVars,
                 matchVars, helperVars, vaultVars, pendleVars>>

\* The vault loop, the Pendle stage and the sheets are done; the CSV (and
\* the optional JSON and Excel files) are written and run() resolves.
RunCompletes ==
  /\ pc = "laterStages"
  /\ exported' = TRUE
  /\ exitStatus' = 0
  /\ pc' = "exited"
  /\ UNCHANGED <<nMarkets, topBorrowers, tpc, enriched, failed, marketsWithBorrowers,
                 allMarketsData, mi, listingFailed, gateVars, retryVars, pageVars,
                 matchVars, helperVars, vaultVars, pendleVars>>

NextRun ==
  \/ MarketsListed
  \/ MarketsListingThrows
  \/ \E t \in Tasks : pc = "marketStage" /\ StartFn(t)
  \/ \E t \in Tasks : TopBorrowersFetched(t)
  \/ \E t \in Tasks : TransactionsFetched(t)
  \/ \E t \in Tasks : pc = "marketStage" /\ ThenHandler(t)
  \/ \E t \in Tasks : pc = "marketStage" /\ CatchHandler(t)
  \/ AllResolved
  \/ AllRejected
  \/ VaultsListed
  \/ VaultsListingThrows
  \/ RunCompletes

SpecRun == InitRun /\ [][NextRun]_vars

\* C15: a failure to fetch one market's top positions or one user's
\* transactions does not abort the run: the market is still emitted, with an
\* empty or partial child collection and an error note, and all other
\* markets are still fetched.
C15_MarketFailureIsolated ==
  /\ (failed # {} /\ ~listingFailed) => pc # "fatal"
  /\ pc = "listVaults" =>
       \A t \in 1..nMarkets :
         /\ marketsWithBorrowers[t].market = t
         /\ t \in failed => marketsWithBorrowers[t].error # "none"

(***************************************************************************)
(* get_morpho_data.js: main() and MorphoDataBuilder.buildCompleteDataset() *)
(***************************************************************************)

\* node starts main().
InitBuilder ==
  /\ GateIdle
  /\ RetryIdle
  /\ PageIdle
  /\ VaultsIdle
  /\ PendleIdle
  /\ MarketsIdle
  /\ MatchIdle
  /\ HelperIdle
  /\ pc = "getAllMarkets"

\* const markets = await this.getAllMarkets()
BuilderListed ==
  /\ pc = "getAllMarkets"
  /\ nMarkets' \in 0..Min(MaxMarkets, MaxTasks)
  /\ pc' = "marketLoop"
  /\ UNCHANGED <<topBorrowers, tpc, enriched, failed, marketsWithBorrowers,
                 allMarketsData, mi, listingFailed, exitStatus, exported, gateVars,
                 retryVars, pageVars, matchVars, helperVars, vaultVars, pendleVars>>

\* getAllMarkets() rejects: the outer catch of buildCompleteDataset rethrows,
\* the catch of main() logs the error, and main() resolves: the process ends
\* with nothing written and status 0.
BuilderListingThrows ==
  /\ pc = "getAllMarkets"
  /\ listingFailed' = TRUE
  /\ exitStatus' = 0
  /\ pc' = "exited"
  /\ UNCHANGED <<nMarkets, topBorrowers, tpc, enriched, failed, marketsWithBorrowers,
                 allMarketsData, mi, exported, gateVars, retryVars, pageVars,
                 matchVars, helperVars, vaultVars, pendleVars>>

\* if (!market.loanAsset || !market.collateralAsset) continue;
BuilderMarketSkipped ==
  /\ pc = "marketLoop"
  /\ mi < nMarkets
  /\ mi' = mi + 1
  /\ UNCHANGED <<pc, nMarkets, topBorrowers, tpc, enriched, failed, marketsWithBorrowers,
                 allMarketsData, listingFailed, exitStatus, exported, gateVars,
                 retryVars, pageVars, matchVars, helperVars, vaultVars, pendleVars>>

\* this.allMarketsData.push({ market, topBorrowers, [error] }) and the end
\* of the iteration of the market loop.
pushMarket(borrowers, error) ==
  /\ allMarketsData' = Append(allMarketsData, MarketEntry(mi + 1, borrowers, error))
  /\ mi' = mi + 1
  /\ pc' = "marketLoop"

\* const topBorrowers = await this.getTopBorrowersForMarket(market.uniqueKey),
\* or the catch of the market's try block.
BuilderTopFetched ==
  /\ pc = "marketLoop"
  /\ mi < nMarkets
  /\ \/ \E n \in 0..MaxBorrowers :
          /\ topBorrowers' = [topBorrowers EXCEPT ![mi + 1] = [j \in 1..n |-> TRUE]]
          /\ IF n = 0
               THEN pushMarket(<<>>, "none")
               ELSE pc' = "txLoop" /\ UNCHANGED <<allMarketsData, mi>>
          /\ UNCHANGED failed
     \/ /\ pushMarket(<<>>, "error.message")
        /\ failed' = failed \cup {mi + 1}
        /\ UNCHANGED topBorrowers
  /\ UNCHANGED <<nMarkets, tpc, enriched, marketsWithBorrowers, listingFailed,
                 exitStatus, exported, gateVars, retryVars, pageVars, matchVars, helperVars,
                 vaultVars, pendleVars>>

\* const transactions = await this.getUserTransactions(...) and the push of
\* the borrower, or the catch that pushes it with transactions: [] and error.
BuilderTransactionsFetched ==
  /\ pc = "txLoop"
  /\ \E r \in {"txs", "error"} :
       LET enr == Append(enriched[mi + 1], r) IN
         /\ enriched' = [enriched EXCEPT ![mi + 1] = enr]
         /\ failed' = IF r = "error" THEN failed \cup {mi + 1} ELSE failed
         /\ IF Len(enr) = Len(topBorrowers[mi + 1])
              THEN pushMarket(enr, "none")
              ELSE UNCHANGED <<allMarketsData, mi, pc>>
  /\ UNCHANGED <<nMarkets, topBorrowers, tpc, marketsWithBorrowers, listingFailed,
                 exitStatus, exported, gateVars, retryVars, pageVars, matchVars, helperVars,
                 vaultVars, pendleVars>>

\* The loop ends: buildCompleteDataset returns, main() exports the JSON file
\* and the summary, and the process ends.
BuilderCompletes ==
  /\ pc = "marketLoop"
  /\ mi >= nMarkets
  /\ exported' = TRUE
  /\ exitStatus' = 0
  /\ pc' = "exited"
  /\ UNCHANGED <<nMarkets, topBorrowers, tpc, enriched, failed, marketsWithBorrowers,
                 allMarketsData, mi, listingFailed, gateVars, retryVars, pageVars,
                 matchVars, helperVars, vaultVars, pendleVars>>

NextBuilder ==
  \/ BuilderListed
  \/ BuilderListingThrows
  \/ BuilderMarketSkipped
  \/ BuilderTopFetched
  \/ BuilderTransactionsFetched
  \/ BuilderCompletes

SpecBuilder == InitBuilder /\ [][NextBuilder]_vars

\* this.allMarketsData after an earlier buildCompleteDataset() on the same
\* builder: nothing, or the entry of its one market.
EarlierDatasets ==
  {<<>>,
   <<MarketEntry(1, <<>>, "none")>>,
   <<MarketEntry(1, <<"txs">>, "none")>>,
   <<MarketEntry(1, <<>>, "error.message")>>}

\* buildCompleteDataset() is called on a builder that may have run it
\* before: the constructor, which alone assigns this.allMarketsData = [],
\* does not run again.
InitBuilderAgain ==
  /\ GateIdle
  /\ RetryIdle
  /\ PageIdle
  /\ VaultsIdle
  /\ PendleIdle
  /\ nMarkets = 0
  /\ topBorrowers = [t \in Tasks |-> <<>>]
  /\ tpc = [t \in Tasks |-> "top"]
  /\ enriched = [t \in Tasks |-> <<>>]
  /\ failed = {}
  /\ marketsWithBorrowers = <<>>
  /\ allMarketsData \in EarlierDatasets
  /\ mi = 0
  /\ listingFailed = FALSE
  /\ exitStatus = -1
  /\ exported = FALSE
  /\ MatchIdle
  /\ HelperIdle
  /\ pc = "getAllMarkets"

SpecBuilderAgain == InitBuilderAgain /\ [][NextBuilder]_vars

\* C17: if the top-level market listing or the curator/vault listing fails,
\* the run terminates with a top-level error, writes no export and ends with
\* a non-zero exit status.
C17_ListingFailureIsFatal ==
  listingFailed =>
    /\ pc \in {"fatal", "exited"}
    /\ ~exported
    /\ exitStatus > 0

(***************************************************************************)
(* pendle_morpho_analyzer.js: PendleMorphoAnalyzer.analyzeAllPTMarkets()   *)
(***************************************************************************)

AnalyzerNoMatchNote == "No matching Pendle market found"

\* this.pendleMarketData[market.uniqueKey], in the shape of entry.pendle:
\* pendleMarket (its address, or null) and the error of the else branch.
AnalyzerEntry(found, address, details, history) ==
  [chainId |-> IF found THEN 1 ELSE 0, marketAddress |-> address, marketData |-> details,
   historicalData |-> history, note |-> IF found THEN "" ELSE AnalyzerNoMatchNote]

\* The callback of activePendleMarkets.find for one entry pm: false without
\* pm.pt; a TypeError when pm.pt has no includes() or the collateral address
\* no toLowerCase(); else the part after the dash compared in lower case.
analyzerTest(pm, address) ==
  IF pm.pt.type = "undefined" THEN [threw |-> FALSE, value |-> FALSE]
  ELSE IF pm.pt.type # "string" THEN [threw |-> TRUE, value |-> FALSE]
  ELSE LET ptAddress == IF Len(pm.pt.parts) > 1 THEN pm.pt.parts[2] ELSE pm.pt.parts[1] IN
       IF ptAddress = "" THEN [threw |-> FALSE, value |-> FALSE]
       ELSE IF address \in {Null, NotAString} THEN [threw |-> TRUE, value |-> FALSE]
       ELSE [threw |-> FALSE, value |-> toLowerCase(ptAddress) = toLowerCase(address)]

\* activePendleMarkets.find(...)
RECURSIVE analyzerFind(_, _, _)
analyzerFind(list, x, address) ==
  IF x > Len(list) THEN NoMatch
  ELSE LET t == analyzerTest(list[x], address) IN
       IF t.threw THEN MatchThrew
       ELSE IF t.value
         THEN [threw |-> FALSE, found |-> TRUE, matching |-> list[x], matchedChain |-> 1]
         ELSE analyzerFind(list, x + 1, address)

\* analyzeAllPTMarkets() is called, the PT markets already filtered.
InitAnalyzer ==
  /\ GateIdle
  /\ RetryIdle
  /\ VaultsIdle
  /\ PageIdle
  /\ MarketsIdle
  /\ MatchIdle
  /\ HelperIdle
  /\ pc = "getActive"
  /\ nChains = 1
  /\ c = 1
  /\ activeByChain = [ch \in Chains |-> <<>>]
  /\ k = 0
  /\ b = 0
  /\ collateral = <<>>
  /\ pendle = <<>>
  /\ fetchedFor = {}
  /\ marketData = "null"
  /\ positions = <<>>

\* const activePendleMarkets = await this.getActivePendleMarkets(): the
\* markets, or null (here the empty list) when the request failed.
AnalyzerActiveLoaded ==
  /\ pc = "getActive"
  /\ \E act \in RunActiveLists : activeByChain' = [activeByChain EXCEPT ![1] = act]
  /\ pc' = "ptTop"
  /\ UNCHANGED <<nChains, c, k, b, collateral, pendle, fetchedFor, marketData, positions,
                 vaultVars, outerVars, retryVars>>

\* The next PT market: find, then the matched branch (market data and
\* history, each possibly null) or the else branch; the borrower loop is next.
AnalyzerMarket ==
  /\ pc = "ptTop"
  /\ k < MaxPendleMarkets
  /\ \E address \in RunCollateralAddresses :
       LET r == analyzerFind(activeByChain[1], 1, address) IN
         /\ ~r.threw
         /\ collateral' = Append(collateral, CollateralAsset(TRUE, address))
         /\ IF r.found
              THEN \E details \in {"data", "null"}, history \in {"data", "null"} :
                     pendle' = Append(pendle, AnalyzerEntry(TRUE, r.matching.address,
                                                            details, history))
              ELSE pendle' = Append(pendle, AnalyzerEntry(FALSE, Null, "null", "null"))
  /\ b' = 0
  /\ positions' = <<>>
  /\ pc' = "borrowerTop"
  /\ UNCHANGED <<nChains, c, activeByChain, k, fetchedFor, marketData, vaultVars,
                 outerVars, retryVars>>

\* The find callback throws: the outer catch logs and rethrows.
AnalyzerMatchThrows ==
  /\ pc = "ptTop"
  /\ k < MaxPendleMarkets
  /\ \E address \in RunCollateralAddresses :
       /\ analyzerFind(activeByChain[1], 1, address).threw
       /\ collateral' = Append(collateral, CollateralAsset(TRUE, address))
  /\ pc' = "fatal"
  /\ UNCHANGED <<nChains, c, activeByChain, k, b, pendle, fetchedFor, marketData,
                 positions, vaultVars, outerVars, retryVars>>

\* const userPositions = await this.getPendleUserPositions(userAddress) for
\* the next top borrower of the market, matched or not.
AnalyzerPositionsFetched ==
  /\ pc = "borrowerTop"
  /\ b < MaxBorrowers
  /\ fetchedFor' = fetchedFor \cup {k + 1}
  /\ \E pos \in {"positions", "notAccessible"} : positions' = Append(positions, pos)
  /\ b' = b + 1
  /\ UNCHANGED <<pc, nChains, c, activeByChain, k, collateral, pendle, marketData,
                 vaultVars, outerVars, retryVars>>

\* marketData.topBorrowers is exhausted: the next PT market.
AnalyzerBorrowersExit ==
  /\ pc = "borrowerTop"
  /\ k' = k + 1
  /\ pc' = "ptTop"
  /\ UNCHANGED <<nChains, c, activeByChain, b, collateral, pendle, fetchedFor,
                 marketData, positions, vaultVars, outerVars, retryVars>>

\* this.ptMarkets is exhausted: the analysis is returned.
AnalyzerDone ==
  /\ pc = "ptTop"
  /\ pc' = "done"
  /\ UNCHANGED <<pendleVars, vaultVars, outerVars, retryVars>>

NextAnalyzer ==
  \/ AnalyzerActiveLoaded
  \/ AnalyzerMarket
  \/ AnalyzerMatchThrows
  \/ AnalyzerPositionsFetched
  \/ AnalyzerBorrowersExit
  \/ AnalyzerDone

SpecAnalyzer == InitAnalyzer /\ [][NextAnalyzer]_vars

\* this.pendleMarketData[market.uniqueKey] of the x-th PT market: the record
\* stored by analyzeAllPTMarkets, or undefined.
pendleMarketDataOf(data, x) ==
  IF x \in DOMAIN data THEN [defined |-> TRUE, value |-> data[x]]
  ELSE [defined |-> FALSE, value |-> NoPendle]

\* pendleData?.pendleMarket: the matched market, null, or undefined.
pendleMarketOf(pendleData) ==
  IF ~pendleData.defined THEN "undefined"
  ELSE IF pendleData.value.chainId > 0 THEN "object" ELSE Null

\* hasPendleData: pendleData?.pendleMarket !== null
hasPendleData(pendleData) == pendleMarketOf(pendleData) # Null

\* summary.ptMarkets of generateSummaryReport(), for n PT markets.
summaryRows(data, n) ==
  [x \in 1..n |-> [hasPendleData |-> hasPendleData(pendleMarketDataOf(data, x))]]

\* generateSummaryReport() is called: before analyzeAllPTMarkets, after it
\* returned, or after it threw.  this.ptMarkets holds every market the
\* analysis has reached, and exactly the analysed ones once it has returned.
GenerateSummaryReport ==
  /\ pc \in {"getActive", "done", "fatal"}
  /\ hpc = "idle"
  /\ callee' = "generateSummaryReport"
  /\ args' = pendle
  /\ \E n \in Len(collateral)..MaxPendleMarkets :
       /\ pc = "done" => n = Len(pendle)
       /\ ret' = summaryRows(pendle, n)
  /\ hpc' = "returned"
  /\ UNCHANGED <<gateVars, retryVars, runVars, pageVars, marketVars, matchVars>>

NextAnalyzerSummary ==
  \/ AnalyzerActiveLoaded
  \/ AnalyzerMarket
  \/ AnalyzerMatchThrows
  \/ AnalyzerPositionsFetched
  \/ AnalyzerBorrowersExit
  \/ AnalyzerDone
  \/ GenerateSummaryReport

SpecAnalyzerSummary == InitAnalyzer /\ [][NextAnalyzerSummary]_vars

(***************************************************************************)
(* Properties of the matching stage                                        *)
(***************************************************************************)

\* C18: after the matching stage every market classified as a PT market
\* carries an ExternalMarketMatch record (match data, or a null match with a
\* non-empty note), and a market not classified as PT carries none.
C18_PtMarketsCarryMatch ==
  pc = "done" =>
    \A x \in 1..Len(collateral) :
      IF collateral[x].pt
        THEN \/ pendle[x].chainId > 0
             \/ /\ pendle[x].chainId = 0
                /\ pendle[x].marketAddress = Null
                /\ pendle[x].note # ""
        ELSE pendle[x] = NoPendle

\* The stage has ended with an unmatched PT market, a matched PT market
\* aside or a market that is not a PT market.
C18_Witness_UnmatchedAndOther ==
  /\ pc = "done"
  /\ \E x, y \in 1..Len(collateral) :
       /\ collateral[x].pt /\ pendle[x].chainId = 0
       /\ \/ ~collateral[y].pt
          \/ collateral[y].pt /\ pendle[y].chainId > 0

\* C19: a PT market whose collateral address appears in no configured
\* chain's active-market list has a match row with matched = false and a
\* non-empty note, and no external position fetch is issued for its borrowers.
C19_UnmatchedNotFetched ==
  \A x \in 1..Len(pendle) :
    (collateral[x].pt /\ HitChains(collateral[x].address) = {}) =>
      /\ ~ptMatchRow(pendle[x]).matched
      /\ ptMatchRow(pendle[x]).note # ""
      /\ x \notin fetchedFor

(***************************************************************************)
(* Classification of a market's collateral token                           *)
(***************************************************************************)

MaxTextLen == 2

\* A symbol or a name is a text: a sequence of pieces, each piece a marker
\* of the classifiers in some letter case or other characters ("x"). An
\* absent symbol or name is the empty text (symbol || "").
Pieces == {"pt-", "PT-", "pt ", "pendle", "Pendle", "principal token", "x"}

Texts == UNION {[1..n -> Pieces] : n \in 0..MaxTextLen}

\* String.prototype.toLowerCase / startsWith / includes on a text.
lowerText(t) == [j \in DOMAIN t |-> toLowerCase(t[j])]

startsWith(t, piece) == Len(t) > 0 /\ t[1] = piece

includes(t, piece) == \E j \in DOMAIN t : t[j] = piece

\* isLikelyPTTokenSymbolOrName(symbol, name)
isLikelyPTTokenSymbolOrName(symbol, name) ==
  LET s == lowerText(symbol)
      n == lowerText(name) IN
  \/ startsWith(s, "pt-")
  \/ startsWith(s, "pt ")
  \/ includes(s, "pendle")
  \/ includes(n, "pendle")
  \/ includes(n, "principal token")

\* this.config.filterCriteria.ptTokenIdentifiers (the default configuration)
ptTokenIdentifiers == <<"PT-", "PT ", "principal token", "pendle">>

\* The callback of filterPTMarkets on one market's collateral symbol and name.
filterPTMarkets(collateralSymbol, collateralName) ==
  \E x \in DOMAIN ptTokenIdentifiers :
    LET lowerIdentifier == toLowerCase(ptTokenIdentifiers[x]) IN
    \/ includes(lowerText(collateralSymbol), lowerIdentifier)
    \/ includes(lowerText(collateralName), lowerIdentifier)

Classifiers == {"isLikelyPTTokenSymbolOrName", "filterPTMarkets"}

\* A classifier is about to be called on a collateral symbol and name.
InitClassify ==
  /\ GateIdle
  /\ RetryIdle
  /\ RunIdle
  /\ PageIdle
  /\ MarketsIdle
  /\ MatchIdle
  /\ callee \in Classifiers
  /\ args \in [symbol : Texts, name : Texts]
  /\ ret = <<>>
  /\ hpc = "call"

Classify ==
  /\ hpc = "call"
  /\ ret' = IF callee = "filterPTMarkets"
              THEN filterPTMarkets(args.symbol, args.name)
              ELSE isLikelyPTTokenSymbolOrName(args.symbol, args.name)
  /\ hpc' = "returned"
  /\ UNCHANGED <<callee, args, gateVars, retryVars, runVars, pageVars, marketVars, matchVars>>

NextClassify == Classify

SpecClassify == InitClassify /\ [][NextClassify]_vars

\* A text has one of the prefixes or contains one of the substrings,
\* compared case-insensitively.
HasPtMarker(t) ==
  \/ startsWith(lowerText(t), "pt-")
  \/ startsWith(lowerText(t), "pt ")
  \/ includes(lowerText(t), "pendle")
  \/ includes(lowerText(t), "principal token")

\* C22: a market is classified principal-token-like exactly when its
\* collateral symbol or name, compared case-insensitively, has the prefix
\* "pt-" or "pt " or contains "pendle" or "principal token".
C22_ClassifiedByPrefixOrSubstring ==
  hpc = "returned" => (ret <=> (HasPtMarker(args.symbol) \/ HasPtMarker(args.name)))

(***************************************************************************)
(* run(): the retained transactions of a vault depositor                   *)
(***************************************************************************)

MaxTransactions == 7

\* sortedTransactions.slice(0, 5)
TopTransactions == 5

\* A transaction of a depositor: whether tx.data is set, tx.data.assetsUsd
\* and tx.data.repaidAssetsUsd (Absent: no such field).
Tx(data, assetsUsd, repaidAssetsUsd) ==
  [data |-> data, assetsUsd |-> assetsUsd, repaidAssetsUsd |-> repaidAssetsUsd]

TxKinds ==
  {Tx(TRUE, 100, Absent), Tx(TRUE, Absent, 50), Tx(TRUE, 10, Absent),
   Tx(TRUE, Absent, Absent)}

TransactionLists == UNION {[1..n -> TxKinds] : n \in 0..MaxTransactions}

\* A field that is missing or 0 is falsy in a || chain.
Falsy(v) == v = Absent \/ v = 0

\* Faulty variant: the repaid-USD field is not looked at.
extractAssetsUsdDirectOnly(tx) ==
  IF ~tx.data THEN 0
  ELSE IF ~Falsy(tx.assetsUsd) THEN tx.assetsUsd
  ELSE 0

\* extractAssetsUsd(tx): parseFloat(tx.data.assetsUsd ||
\* tx.data.repaidAssetsUsd || 0), and 0 without tx.data.
extractAssetsUsd(tx) ==
  IF ~tx.data THEN 0
  ELSE IF ~Falsy(tx.assetsUsd) THEN tx.assetsUsd
  ELSE IF ~Falsy(tx.repaidAssetsUsd) THEN tx.repaidAssetsUsd
  ELSE 0

\* One insertion of Array.prototype.sort with the comparator
\* extractAssetsUsd(b) - extractAssetsUsd(a): tx goes behind every element
\* that does not compare after it (the sort is stable).
RECURSIVE insertSorted(_, _, _)
insertSorted(sorted, x, tx) ==
  IF x > Len(sorted) THEN Append(sorted, tx)
  ELSE IF extractAssetsUsd(tx) - extractAssetsUsd(sorted[x]) > 0
    THEN SubSeq(sorted, 1, x - 1) \o <<tx>> \o SubSeq(sorted, x, Len(sorted))
    ELSE insertSorted(sorted, x + 1, tx)

\* allTransactions.sort((a, b) => extractAssetsUsd(b) - extractAssetsUsd(a))
RECURSIVE sortTransactions(_, _, _)
sortTransactions(sorted, x, allTransactions) ==
  IF x > Len(allTransactions) THEN sorted
  ELSE sortTransactions(insertSorted(sorted, 1, allTransactions[x]), x + 1, allTransactions)

\* sortedTransactions.slice(0, 5)
top5Transactions(allTransactions) ==
  LET sortedTransactions == sortTransactions(<<>>, 1, allTransactions) IN
  SubSeq(sortedTransactions, 1, Min(TopTransactions, Len(sortedTransactions)))

\* The row of a vault depositor is about to be built from its transactions:
\* args is the list as fetched, vaultDepositors[1] the array
\* it.user.transactions that vaultDepositors holds for the depositor.
InitTopTransactions ==
  /\ GateIdle
  /\ RetryIdle
  /\ pc = "idle"
  /\ PendleIdle
  /\ testMode = FALSE
  /\ nVaults = 0
  /\ i = 0
  /\ failureCount = 0
  /\ consecutiveFailures = 0
  /\ failStreak = 0
  /\ failedVaults = {}
  /\ cooledDown = FALSE
  /\ PageIdle
  /\ MarketsIdle
  /\ MatchIdle
  /\ callee = "top5Transactions"
  /\ args \in TransactionLists
  /\ vaultDepositors = <<args>>
  /\ ret = <<>>
  /\ hpc = "call"

\* allTransactions is the depositor's own array, which sort() reorders in
\* place before slice() copies its head.
RetainTop ==
  /\ hpc = "call"
  /\ vaultDepositors' = <<sortTransactions(<<>>, 1, vaultDepositors[1])>>
  /\ ret' = top5Transactions(vaultDepositors[1])
  /\ hpc' = "returned"
  /\ UNCHANGED <<callee, args, pc, testMode, nVaults, i, failureCount, consecutiveFailures,
                 failStreak, failedVaults, cooledDown, pendleVars, gateVars, retryVars,
                 pageVars, marketVars, matchVars>>

NextTopTransactions == RetainTop

SpecTopTransactions == InitTopTransactions /\ [][NextTopTransactions]_vars

(***************************************************************************)
(* run(): the row-sets of the top borrowers and of their transactions      *)
(***************************************************************************)

MaxSheetMarkets == 3

\* An element of entry.topBorrowers: b.user.address and b.transactions (the
\* hashes of the fetched transactions).
Borrower(address, transactions) == [address |-> address, transactions |-> transactions]

BorrowerKinds == {Borrower("0xa", <<>>), Borrower("0xb", <<"h1", "h2">>)}

\* for (const tx of txs) sheets.morpho_user_transactions.push({...}), from
\* the transaction at z on.
RECURSIVE transactionRows(_, _, _, _)
transactionRows(mk, ua, txs, z) ==
  IF z > Len(txs) THEN <<>>
  ELSE <<[marketUniqueKey |-> mk, userAddress |-> ua, hash |-> txs[z]]>>
       \o transactionRows(mk, ua, txs, z + 1)

\* Faulty variant of borrowerRows: a borrower without transactions gets no
\* row in morpho_top_borrowers.
RECURSIVE borrowerRowsWithTransactions(_, _, _, _)
borrowerRowsWithTransactions(sheet, mk, entryTopBorrowers, y) ==
  IF y > Len(entryTopBorrowers) THEN <<>>
  ELSE LET borrower == entryTopBorrowers[y] IN
       (IF sheet = "morpho_top_borrowers"
          THEN IF borrower.transactions = <<>> THEN <<>>
               ELSE <<[marketUniqueKey |-> mk, userAddress |-> borrower.address,
                       transactions_count |-> Len(borrower.transactions)]>>
          ELSE transactionRows(mk, borrower.address, borrower.transactions, 1))
       \o borrowerRowsWithTransactions(sheet, mk, entryTopBorrowers, y + 1)

\* for (const b of entry.topBorrowers), from the borrower at y on: one
\* pushed row for morpho_top_borrowers, one per transaction for
\* morpho_user_transactions.
RECURSIVE borrowerRows(_, _, _, _)
borrowerRows(sheet, mk, entryTopBorrowers, y) ==
  IF y > Len(entryTopBorrowers) THEN <<>>
  ELSE LET borrower == entryTopBorrowers[y] IN
       (IF sheet = "morpho_top_borrowers"
          THEN <<[marketUniqueKey |-> mk, userAddress |-> borrower.address,
                  transactions_count |-> Len(borrower.transactions)]>>
          ELSE transactionRows(mk, borrower.address, borrower.transactions, 1))
       \o borrowerRows(sheet, mk, entryTopBorrowers, y + 1)

\* for (const entry of marketsWithBorrowers), from the entry at x on.
RECURSIVE entryRows(_, _, _)
entryRows(sheet, entries, x) ==
  IF x > Len(entries) THEN <<>>
  ELSE borrowerRows(sheet, entries[x].market, entries[x].topBorrowers, 1)
       \o entryRows(sheet, entries, x + 1)

\* marketsWithBorrowers: the x-th market has the unique key x.
SheetEntries(lists) ==
  [x \in DOMAIN lists |-> MarketEntry(x, lists[x], "none")]

\* The market stage is over and the sheets are about to be built.
InitSheets ==
  /\ GateIdle
  /\ RetryIdle
  /\ RunIdle
  /\ PageIdle
  /\ MarketsIdle
  /\ MatchIdle
  /\ callee = "sheets"
  /\ \E n \in 0..MaxSheetMarkets :
       \E lists \in [1..n -> UNION {[1..m -> BorrowerKinds] : m \in 0..MaxBorrowers}] :
         args = SheetEntries(lists)
  /\ ret = <<>>
  /\ hpc = "call"

BuildSheets ==
  /\ hpc = "call"
  /\ ret' = [morpho_top_borrowers |-> entryRows("morpho_top_borrowers", args, 1),
             morpho_user_transactions |-> entryRows("morpho_user_transactions", args, 1)]
  /\ hpc' = "returned"
  /\ UNCHANGED <<callee, args, gateVars, retryVars, runVars, pageVars, marketVars, matchVars>>

NextSheets == BuildSheets

SpecSheets == InitSheets /\ [][NextSheets]_vars

(***************************************************************************)
(* The export helpers: flatten, csvEscape, escapeXml and the serializers   *)
(***************************************************************************)

MaxArrayLen == 2

\* A string is the sequence of its characters (or of longer pieces that are
\* never split); "" is <<>>.
\* A JavaScript value: null / undefined, a scalar with the text String(v)
\* gives it, an array of values, or an object with its fields in insertion
\* order.
JsNull == [type |-> "null", text |-> <<>>, items |-> <<>>]

JsScalar(text) == [type |-> "scalar", text |-> text, items |-> <<>>]

JsArray(items) == [type |-> "array", text |-> <<>>, items |-> items]

JsObject(fields) == [type |-> "object", text |-> <<>>, items |-> fields]

Field(key, value) == [key |-> key, value |-> value]

\* typeof v === "object"
typeofObject(v) == v.type \in {"null", "array", "object"}

\* String(v) of an array element inside Array.prototype.join: "" for null,
\* "[object Object]" for an object, the elements joined by "," for an array.
RECURSIVE join(_, _, _)
elementString(v) ==
  CASE v.type = "null" -> <<>>
    [] v.type = "scalar" -> v.text
    [] v.type = "object" -> <<"[object Object]">>
    [] OTHER -> join(v.items, 1, <<",">>)

\* items.join(separator), from the element at x on.
join(items, x, separator) ==
  IF x > Len(items) THEN <<>>
  ELSE IF x = Len(items) THEN elementString(items[x])
  ELSE elementString(items[x]) \o separator \o join(items, x + 1, separator)

\* JSON.stringify(v); the strings of the model need no escaping.
RECURSIVE stringify(_)
RECURSIVE stringifyItems(_, _, _)
stringifyItems(items, x, isObject) ==
  IF x > Len(items) THEN <<>>
  ELSE (IF x > 1 THEN <<",">> ELSE <<>>)
       \o (IF isObject
             THEN <<"\"">> \o items[x].key \o <<"\"", ":">> \o stringify(items[x].value)
             ELSE stringify(items[x]))
       \o stringifyItems(items, x + 1, isObject)

stringify(v) ==
  CASE v.type = "null" -> <<"null">>
    [] v.type = "scalar" -> <<"\"">> \o v.text \o <<"\"">>
    [] v.type = "array" -> <<"[">> \o stringifyItems(v.items, 1, FALSE) \o <<"]">>
    [] OTHER -> <<"{">> \o stringifyItems(v.items, 1, TRUE) \o <<"}">>

\* out[key] = value on an object kept in insertion order.
put(out, key, value) ==
  IF \E x \in DOMAIN out : out[x].key = key
    THEN [x \in DOMAIN out |-> IF out[x].key = key THEN Field(key, value) ELSE out[x]]
    ELSE Append(out, Field(key, value))

\* obj.length && typeof obj[0] === "object"
firstIsObject(items) == Len(items) > 0 /\ typeofObject(items[1])

\* flatten(obj, prefix, out)
RECURSIVE flatten(_, _, _)
RECURSIVE flattenEntries(_, _, _, _)
flattenEntries(fields, x, prefix, out) ==
  IF x > Len(fields) THEN out
  ELSE LET key == IF prefix # <<>> THEN prefix \o <<".">> \o fields[x].key
                  ELSE fields[x].key IN
       flattenEntries(fields, x + 1, prefix, flatten(fields[x].value, key, out))

flatten(obj, prefix, out) ==
  CASE obj.type = "null" -> IF prefix # <<>> THEN put(out, prefix, <<>>) ELSE out
    [] obj.type = "array" ->
         IF firstIsObject(obj.items)
           THEN put(out, IF prefix # <<>> THEN prefix ELSE <<"json">>, stringify(obj))
           ELSE put(out, IF prefix # <<>> THEN prefix ELSE <<"list">>,
                    join(obj.items, 1, <<"|">>))
    [] obj.type = "object" -> flattenEntries(obj.items, 1, prefix, out)
    [] OTHER -> put(out, prefix, obj.text)

\* The values of the model: leaves, arrays of leaves and of one-field
\* objects, objects of leaves and arrays, and the records made of them.
Leaves == {JsNull, JsScalar(<<"x">>)}

ArrayElements == Leaves \cup {JsObject(<<Field(<<"a">>, JsScalar(<<"x">>))>>)}

Arrays == {JsArray(items) : items \in UNION {[1..n -> ArrayElements] : n \in 0..MaxArrayLen}}

InnerObjects ==
  {JsObject(<<>>)}
  \cup {JsObject(<<Field(<<"a">>, v)>>) : v \in Leaves \cup Arrays}
  \cup {JsObject(<<Field(<<"a">>, v), Field(<<"b">>, w)>>) : v, w \in Leaves}

FieldValues == Leaves \cup Arrays \cup InnerObjects

RecordsOf(values) ==
  {JsObject(<<>>)}
  \cup {JsObject(<<Field(key, v)>>) : key \in {<<"a">>, <<"b">>}, v \in values}
  \cup {JsObject(<<Field(<<"a">>, v), Field(<<"b">>, w)>>) : v, w \in values}
  \cup {JsObject(<<Field(<<"b">>, v), Field(<<"a">>, w)>>) : v, w \in values}

\* flatten(r) is about to be called on a record.
InitFlatten ==
  /\ GateIdle
  /\ RetryIdle
  /\ RunIdle
  /\ PageIdle
  /\ MarketsIdle
  /\ MatchIdle
  /\ callee = "flatten"
  /\ args \in RecordsOf(FieldValues)
  /\ ret = <<>>
  /\ hpc = "call"

Flatten ==
  /\ hpc = "call"
  /\ ret' = flatten(args, <<>>, <<>>)
  /\ hpc' = "returned"
  /\ UNCHANGED <<callee, args, gateVars, retryVars, runVars, pageVars, marketVars, matchVars>>

NextFlatten == Flatten

SpecFlatten == InitFlatten /\ [][NextFlatten]_vars

MaxCellLen == 3

\* s.replace(/\r?\n/g, "\n"), from the character at x on.
RECURSIVE replaceCrLf(_, _)
replaceCrLf(s, x) ==
  IF x > Len(s) THEN <<>>
  ELSE IF s[x] = "\r" /\ x < Len(s) /\ s[x + 1] = "\n"
    THEN <<"\n">> \o replaceCrLf(s, x + 2)
    ELSE <<s[x]>> \o replaceCrLf(s, x + 1)

\* s.replace(/ch/g, replacement), from the character at x on.
RECURSIVE replaceAll(_, _, _, _)
replaceAll(s, x, ch, replacement) ==
  IF x > Len(s) THEN <<>>
  ELSE (IF s[x] = ch THEN replacement ELSE <<s[x]>>) \o replaceAll(s, x + 1, ch, replacement)

\* csvEscape(v) of a string.
csvEscape(v) ==
  LET s == replaceCrLf(v, 1)
      needsQuote == \E x \in DOMAIN s : s[x] \in {"\"", ",", "\n"}
      doubled == replaceAll(s, 1, "\"", <<"\"", "\"">>)
  IN IF needsQuote THEN <<"\"">> \o doubled \o <<"\"">> ELSE doubled

\* escapeXml(s) of a string.
escapeXml(s) ==
  LET amp == replaceAll(s, 1, "&", <<"&", "a", "m", "p", ";">>)
      lt == replaceAll(amp, 1, "<", <<"&", "l", "t", ";">>)
      gt == replaceAll(lt, 1, ">", <<"&", "g", "t", ";">>)
  IN replaceAll(gt, 1, "\"", <<"&", "q", "u", "o", "t", ";">>)

Escapers == {"csvEscape", "escapeXml"}

escape(escaper, v) == IF escaper = "csvEscape" THEN csvEscape(v) ELSE escapeXml(v)

\* The characters of a cell: an ordinary one, the delimiter, the quote, the
\* line break, the carriage return and the markup characters.
CellChars == {"a", ",", "\"", "\n", "\r", "&", "<", ">"}

Cells == UNION {[1..n -> CellChars] : n \in 0..MaxCellLen}

\* A serializer is about to escape one cell.
InitEscape ==
  /\ GateIdle
  /\ RetryIdle
  /\ RunIdle
  /\ PageIdle
  /\ MarketsIdle
  /\ MatchIdle
  /\ callee \in Escapers
  /\ args \in Cells
  /\ ret = <<>>
  /\ hpc = "call"

Escape ==
  /\ hpc = "call"
  /\ ret' = escape(callee, args)
  /\ hpc' = "returned"
  /\ UNCHANGED <<callee, args, gateVars, retryVars, runVars, pageVars, marketVars, matchVars>>

NextEscape == Escape

SpecEscape == InitEscape /\ [][NextEscape]_vars

MaxRows == 2

\* row[h] of a flattened row: its value, or undefined when the row has no
\* such key.
Undefined == <<"<undefined>">>

Lookup(out, key) ==
  IF \E x \in DOMAIN out : out[x].key = key
    THEN (CHOOSE f \in {out[x] : x \in DOMAIN out} : f.key = key).value
    ELSE Undefined

\* Object.keys(r).forEach((k) => headerSet.add(k)), from the key at y on.
RECURSIVE addKeys(_, _, _)
addKeys(headerSet, r, y) ==
  IF y > Len(r) THEN headerSet
  ELSE addKeys(IF \E z \in DOMAIN headerSet : headerSet[z] = r[y].key
                 THEN headerSet
                 ELSE Append(headerSet, r[y].key),
               r, y + 1)

\* Faulty variant of headerKeys: only the first row contributes.
RECURSIVE headerKeysFirstRow(_, _, _)
headerKeysFirstRow(flatRows, x, headerSet) ==
  IF x > Len(flatRows) \/ x > 1 THEN headerSet
  ELSE headerKeysFirstRow(flatRows, x + 1, addKeys(headerSet, flatRows[x], 1))

\* flatRows.forEach((r) => Object.keys(r).forEach((k) => headerSet.add(k))),
\* from the row at x on; the Set keeps the keys in the order first seen.
RECURSIVE headerKeys(_, _, _)
headerKeys(flatRows, x, headerSet) ==
  IF x > Len(flatRows) THEN headerSet
  ELSE headerKeys(flatRows, x + 1, addKeys(headerSet, flatRows[x], 1))

SheetName == <<"Markets">>

\* The lines toMultiSheetCSVString writes for one sheet after its
\* "# sheet:" line, each the sequence of cells that join(",") separates.
toMultiSheetCSVString(rows) ==
  LET flatRows == [x \in DOMAIN rows |-> flatten(rows[x], <<>>, <<>>)]
      headers == <<<<"__sheet">>>> \o headerKeys(flatRows, 1, <<>>)
      arr(row) == [y \in DOMAIN headers |->
                     IF y = 1 THEN SheetName
                     ELSE IF Lookup(row, headers[y]) = Undefined THEN <<>>
                     ELSE Lookup(row, headers[y])]
  IN [header |-> [y \in DOMAIN headers |-> csvEscape(headers[y])],
      rows |-> [x \in DOMAIN flatRows |->
                  [y \in DOMAIN headers |-> csvEscape(arr(flatRows[x])[y])]]]

\* The <Row> elements toSpreadsheetXML writes for one sheet, each the
\* sequence of the texts of its cells.
toSpreadsheetXML(rows) ==
  LET flatRows == [x \in DOMAIN rows |-> flatten(rows[x], <<>>, <<>>)]
      headers == headerKeys(flatRows, 1, <<>>)
      v(row, h) == IF Lookup(row, h) = Undefined THEN <<>> ELSE Lookup(row, h)
  IN [header |-> [y \in DOMAIN headers |-> escapeXml(headers[y])],
      rows |-> [x \in DOMAIN flatRows |->
                  [y \in DOMAIN headers |-> escapeXml(v(flatRows[x], headers[y]))]]]

Serializers == {"toMultiSheetCSVString", "toSpreadsheetXML"}

\* The rows of a sheet: records of null, of a scalar with a character to
\* escape, and of a nested object.
SheetValues ==
  {JsNull, JsScalar(<<",">>), JsObject(<<Field(<<"a">>, JsScalar(<<"x">>))>>)}

SheetRows == RecordsOf(SheetValues)

RowSets == UNION {[1..n -> SheetRows] : n \in 0..MaxRows}

\* A serializer is about to write one sheet.
InitSerialize ==
  /\ GateIdle
  /\ RetryIdle
  /\ RunIdle
  /\ PageIdle
  /\ MarketsIdle
  /\ MatchIdle
  /\ callee \in Serializers
  /\ args \in RowSets
  /\ ret = <<>>
  /\ hpc = "call"

Serialize ==
  /\ hpc = "call"
  /\ ret' = IF callee = "toMultiSheetCSVString"
              THEN toMultiSheetCSVString(args)
              ELSE toSpreadsheetXML(args)
  /\ hpc' = "returned"
  /\ UNCHANGED <<callee, args, gateVars, retryVars, runVars, pageVars, marketVars, matchVars>>

NextSerialize == Serialize

SpecSerialize == InitSerialize /\ [][NextSerialize]_vars

(***************************************************************************)
(* Properties of the extractor and of the Pendle stage's error handling    *)
(***************************************************************************)

\* C21: the token-address extractor returns the normalized address for the
\* composite string, the object with an address / token / id field and the
\* absent field, and the empty string, never throwing, for every other
\* input; an unexpected payload shape never aborts the matching stage.
C21_ExtractorNeverThrows ==
  mpc = "done" =>
    /\ \A ch \in 1..nChains : \A x \in DOMAIN activeByChain[ch] :
         LET pt == activeByChain[ch][x].pt
             r == extractPtAddressFromPendleActive(pt) IN
           /\ ~r.threw
           /\ pt.type = "string" => r.value = toLowerCase(pt.parts[Len(pt.parts)])
           /\ (pt.type = "object" /\ pt.address \notin {Null, NotAString}) =>
                r.value = toLowerCase(pt.address)
           /\ (pt.type = "object" /\ pt.address = Null /\ pt.token \notin {Null, NotAString}) =>
                r.value = toLowerCase(pt.token)
           /\ (pt.type = "undefined" \/ (pt.type = "object" /\ pt.address = NotAString)) =>
                r.value = ""
    /\ ~matchResult.threw

\* C23: for a matched market, if the external snapshot fetch or the external
\* history fetch fails, the match is still recorded (chain and external
\* market address set), only the data of the fetch that failed is left
\* null, and processing continues with its borrowers' position fetches.
C23_OnlyFailedFetchLeftNull ==
  [][(Len(pendle') = Len(pendle) + 1 /\ pendle'[Len(pendle')].chainId > 0) =>
       LET entry == pendle'[Len(pendle')]
           found == matchPt(collateral'[Len(collateral')].address, nChains, activeByChain) IN
         /\ entry.chainId = found.matchedChain
         /\ entry.marketAddress = found.matching.address
         /\ pc' = "borrowerTop"
         /\ found.matching.address # Null =>
              /\ entry.marketData = "null" => (pc = "dataFetch" /\ rpc = "failed")
              /\ entry.historicalData = "null" => (pc = "historyFetch" /\ rpc = "failed")]_vars

\* C24: a 404 response from the user-positions endpoint is treated as a
\* valid empty result and not as a failure: it is not retried, it does not
\* abort the market's processing, and the remaining borrowers' positions
\* are still fetched.
C24_NotFoundIsEmptyResult ==
  [][/\ (pc = "positionsFetch" /\ rpc = "inflight" /\ lastOutcome'.status = 404) =>
          rpc' = "failed"
     /\ (pc = "positionsFetch" /\ rpc = "failed" /\ err.status = 404 /\ pc' # pc) =>
          /\ positions' = Append(positions, "notFound")
          /\ pc' = "borrowerTop"
          /\ b' = b + 1]_vars

\* After a 404 for the first borrower, under a configuration that allows
\* retries, the positions of the next borrower have been fetched.
C24_Witness_FetchedAfterNotFound ==
  /\ maxRetries > 1
  /\ pc = "borrowerTop"
  /\ Len(positions) = 2
  /\ positions[1] = "notFound"
  /\ positions[2] = "positions"

(***************************************************************************)
(* Properties of the market stage under the gate                           *)
(***************************************************************************)

\* The entry of a fetched borrower in enriched: its transactions were
\* fetched, or it has no address and carries [].
EnrichedBorrower(hasAddress) == IF hasAddress THEN "txs" ELSE "noAddress"

\* C25: for every interleaving of market-task completions under the gate,
\* entry i of the final market list belongs to the i-th market of the
\* listing, and each entry's borrower collection contains exactly the
\* positions fetched for that market, in the order returned.
C25_EntriesInListingOrder ==
  pc \in {"listVaults", "laterStages"} =>
    /\ Len(marketsWithBorrowers) = nMarkets
    /\ \A t \in 1..nMarkets :
         LET entry == marketsWithBorrowers[t] IN
           /\ entry.market = t
           /\ Len(entry.topBorrowers) = Len(topBorrowers[t])
           /\ \A j \in DOMAIN topBorrowers[t] :
                entry.topBorrowers[j] = EnrichedBorrower(topBorrowers[t][j])

\* The market stage has ended for markets with different borrower lists,
\* one of which had to wait in the gate's queue.
C25_Witness_QueuedMarketsDiffer ==
  /\ pc = "listVaults"
  /\ nMarkets >= 2
  /\ wasQueued # {}
  /\ Len(topBorrowers[1]) = 2
  /\ topBorrowers[1][1] /\ ~topBorrowers[1][2]
  /\ Len(topBorrowers[2]) = 1

\* The network requests in flight: one per running market task that awaits
\* a fetch, and the single awaited request of a sequential stage (the two
\* listings, the vault loop and the Pendle stage, which await each call).
RequestsInFlight ==
  Cardinality({t \in 1..nMarkets : st[t] = "running" /\ tpc[t] \in {"top", "txs"}})
  + (IF pc \in {"listMarkets", "listVaults", "laterStages"} THEN 1 ELSE 0)

\* C26: at every instant of a run, counting all stages, the number of
\* network requests in flight is at most the configured concurrency.
C26_InFlightWithinConcurrency == RequestsInFlight <= concurrency

\* Every slot of the gate holds a task with a request in flight while
\* another market waits in the queue.
C26_Witness_LimitReachedWhileQueued ==
  /\ pc = "marketStage"
  /\ RequestsInFlight = concurrency
  /\ queue # <<>>

(***************************************************************************)
(* Properties of the retained transactions                                 *)
(***************************************************************************)

\* The USD value a transaction is ranked by: the direct USD field, else the
\* repaid-USD field, else 0.
UsdValue(tx) ==
  IF tx.assetsUsd # Absent THEN tx.assetsUsd
  ELSE IF tx.repaidAssetsUsd # Absent THEN tx.repaidAssetsUsd
  ELSE 0

\* The number of elements of a list equal to tx.
Count(list, tx) == Cardinality({x \in DOMAIN list : list[x] = tx})

\* C27: for each vault depositor, the retained transactions are the (at
\* most) 5 transactions with the greatest extracted USD value, in descending
\* order of that value; with 7 transactions of which three carry 100, 50, 10
\* and four carry no USD field, the retained list starts with 100, 50, 10.
C27_TopFiveByUsdDescending ==
  hpc = "returned" =>
    /\ Len(ret) = Min(5, Len(args))
    /\ \A x \in 1..(Len(ret) - 1) : UsdValue(ret[x]) >= UsdValue(ret[x + 1])
    /\ \A tx \in TxKinds :
         /\ Count(ret, tx) <= Count(args, tx)
         /\ Count(ret, tx) < Count(args, tx) =>
              \A x \in DOMAIN ret : UsdValue(ret[x]) >= UsdValue(tx)
    /\ (/\ Len(args) = 7
        /\ Count(args, Tx(TRUE, 100, Absent)) = 1
        /\ Count(args, Tx(TRUE, Absent, 50)) = 1
        /\ Count(args, Tx(TRUE, 10, Absent)) = 1
        /\ Count(args, Tx(TRUE, Absent, Absent)) = 4) =>
         /\ ret[1] = Tx(TRUE, 100, Absent)
         /\ ret[2] = Tx(TRUE, Absent, 50)
         /\ ret[3] = Tx(TRUE, 10, Absent)

\* The scenario: 7 transactions, the three with a USD value (50 in the
\* repaid-USD field) last and in ascending order, have been cut to the top 5.
C27_Witness_SevenTransactions ==
  /\ hpc = "returned"
  /\ Len(args) = 7
  /\ \A x \in 1..4 : args[x] = Tx(TRUE, Absent, Absent)
  /\ args[5] = Tx(TRUE, 10, Absent)
  /\ args[6] = Tx(TRUE, Absent, 50)
  /\ args[7] = Tx(TRUE, 100, Absent)
  /\ Len(ret) = 5

(***************************************************************************)
(* Properties of the export helpers                                        *)
(***************************************************************************)

IsArrayOf(v, types) ==
  /\ v.type = "array"
  /\ \A x \in DOMAIN v.items : v.items[x].type \in types

\* What the flattened record holds under path for a value that is not an
\* object: "" for null and undefined, the scalar itself, the JSON text of an
\* array of objects, the elements of an array of scalars joined by "|".
LeafFlattened(out, path, v) ==
  /\ v.type = "null" => Lookup(out, path) = <<>>
  /\ v.type = "scalar" => Lookup(out, path) = v.text
  /\ (IsArrayOf(v, {"object"}) /\ Len(v.items) > 0) => Lookup(out, path) = stringify(v)
  /\ IsArrayOf(v, {"null", "scalar"}) => Lookup(out, path) = join(v.items, 1, <<"|">>)

\* C29: for every nested record, flatten puts each object field under its
\* dotted path, an array of objects as one JSON text under the parent path,
\* an array of scalars as its elements joined by the delimiter, and null and
\* undefined as the empty string.
C29_FlattenRules ==
  (callee = "flatten" /\ hpc = "returned") =>
    \A x \in DOMAIN args.items :
      LET f == args.items[x] IN
        IF f.value.type = "object"
          THEN \A y \in DOMAIN f.value.items :
                 LeafFlattened(ret, f.key \o <<".">> \o f.value.items[y].key,
                               f.value.items[y].value)
          ELSE LeafFlattened(ret, f.key, f.value)


\* C30: escaping is lossless in both serializers: no other cell value,
\* whether it holds the delimiter, quotes, line breaks or carriage returns,
\* has the escaped text of the escaped value, so that decoding the text can
\* only yield the original value.
C30_EscapingLossless ==
  (callee \in Escapers /\ hpc = "returned") =>
    \A v \in Cells : escape(callee, v) = ret => v = args


FlattenedKeys(r) ==
  LET flat == flatten(r, <<>>, <<>>) IN {flat[y].key : y \in DOMAIN flat}

UnionOfKeys(rows) == UNION {FlattenedKeys(rows[x]) : x \in DOMAIN rows}

\* The column that precedes the union's columns: the sheet name in the
\* single-stream format, none in the workbook.
LeadingColumns == IF callee = "toMultiSheetCSVString" THEN 1 ELSE 0

EscapedKey(key) == IF callee = "toMultiSheetCSVString" THEN csvEscape(key) ELSE escapeXml(key)

\* C28: in both serializers the column header of a row-set is exactly the
\* union of the flattened keys of its rows (each key once, after the
\* "__sheet" column that carries the sheet name in the single-stream format),
\* every row has a cell per column, and a row that lacks a key has the empty
\* string in that key's column.
C28_HeaderIsUnionOfKeys ==
  (callee \in Serializers /\ hpc = "returned") =>
    LET columns == (LeadingColumns + 1)..Len(ret.header) IN
      /\ LeadingColumns = 1 => ret.header[1] = <<"__sheet">>
      /\ Len(ret.header) = LeadingColumns + Cardinality(UnionOfKeys(args))
      /\ {ret.header[y] : y \in columns} = {EscapedKey(key) : key \in UnionOfKeys(args)}
      /\ Len(ret.rows) = Len(args)
      /\ \A x \in DOMAIN args :
           /\ Len(ret.rows[x]) = Len(ret.header)
           /\ \A y \in columns : \A key \in UnionOfKeys(args) \ FlattenedKeys(args[x]) :
                ret.header[y] = EscapedKey(key) => ret.rows[x][y] = <<>>

\* A sheet has been written whose second row has a key the first one lacks.
C28_Witness_RowLacksKey ==
  /\ callee \in Serializers
  /\ hpc = "returned"
  /\ Len(args) = 2
  /\ FlattenedKeys(args[2]) \ FlattenedKeys(args[1]) # {}


(***************************************************************************)
(* Properties of the assembled row-sets                                    *)
(***************************************************************************)

\* The rows of a row-set that carry the unique key of the x-th market.
RowsOfMarket(rows, x) == {r \in DOMAIN rows : rows[r].marketUniqueKey = x}

\* The number of transactions fetched for the borrowers at y and after.
RECURSIVE FetchedTransactions(_, _)
FetchedTransactions(entryTopBorrowers, y) ==
  IF y > Len(entryTopBorrowers) THEN 0
  ELSE Len(entryTopBorrowers[y].transactions) + FetchedTransactions(entryTopBorrowers, y + 1)

\* C31: morpho_top_borrowers has exactly one row per (market, top position)
\* pair and morpho_user_transactions exactly one row per fetched
\* transaction; 3 markets with 2 top positions each and no transactions give
\* 6 rows and 0 rows.
C31_OneRowPerPositionAndTransaction ==
  (callee = "sheets" /\ hpc = "returned") =>
    /\ \A x \in DOMAIN args :
         /\ Cardinality(RowsOfMarket(ret.morpho_top_borrowers, x)) = Len(args[x].topBorrowers)
         /\ Cardinality(RowsOfMarket(ret.morpho_user_transactions, x))
              = FetchedTransactions(args[x].topBorrowers, 1)
    /\ \A r \in DOMAIN ret.morpho_top_borrowers :
         ret.morpho_top_borrowers[r].marketUniqueKey \in DOMAIN args
    /\ \A r \in DOMAIN ret.morpho_user_transactions :
         ret.morpho_user_transactions[r].marketUniqueKey \in DOMAIN args
    /\ (/\ Len(args) = 3
        /\ \A x \in DOMAIN args :
             /\ Len(args[x].topBorrowers) = 2
             /\ FetchedTransactions(args[x].topBorrowers, 1) = 0) =>
         /\ Len(ret.morpho_top_borrowers) = 6
         /\ Len(ret.morpho_user_transactions) = 0

\* The scenario: the sheets of 3 markets with 2 top positions each and no
\* transactions have been built.
C31_Witness_ThreeMarketsTwoPositions ==
  /\ callee = "sheets"
  /\ hpc = "returned"
  /\ Len(args) = 3
  /\ \A x \in DOMAIN args :
       Len(args[x].topBorrowers) = 2 /\ FetchedTransactions(args[x].topBorrowers, 1) = 0
  /\ Len(ret.morpho_top_borrowers) = 6


\* C32: nothing is mutated after assembly: building the export row-sets
\* leaves the transaction list of every depositor in vaultDepositors, which
\* is written to the JSON output afterwards, with the same elements in the
\* same order as fetched.
C32_FetchedListsUnchanged ==
  (callee = "top5Transactions" /\ hpc = "returned") => vaultDepositors[1] = args


(***************************************************************************)
(* Properties of the offsets of a paginated fetch                          *)
(***************************************************************************)

\* C33: in every paginated fetch the offset passed to each page call equals
\* the number of items accumulated from the previous pages, whatever the
\* lengths of the pages the provider returns, so the accumulated items are
\* the provider's items 1, 2, ... with none skipped and none fetched twice.
C33_OffsetIsAccumulatedCount ==
  /\ ppc = "call" => skip = Len(all)
  /\ \A j \in DOMAIN all : all[j] = j


(***************************************************************************)
(* Properties of the dataset held by a MorphoDataBuilder                   *)
(***************************************************************************)

\* C34: each run assembles its entities fresh: when buildCompleteDataset
\* completes, allMarketsData holds entries of the markets of that run only,
\* one per market processed, also when buildCompleteDataset had already been
\* run on the same builder.
C34_DatasetHoldsThisRunOnly ==
  (pc = "exited" /\ exported) =>
    /\ Len(allMarketsData) <= nMarkets
    /\ \A x \in DOMAIN allMarketsData : allMarketsData[x].market \in 1..nMarkets
    /\ \A x, y \in DOMAIN allMarketsData :
         allMarketsData[x].market = allMarketsData[y].market => x = y


(***************************************************************************)
(* Properties of the transaction fetches of one market task                *)
(***************************************************************************)

\* The borrowers of a list of enriched entries whose transactions were
\* fetched.
FetchedCount(enr) == Cardinality({j \in DOMAIN enr : enr[j] = "txs"})

\* C35: within one market's task the transaction fetches of its borrowers
\* are issued one at a time in the order the borrowers were returned: a step
\* that moves a task completes at most one of its fetches, which the task
\* was awaiting, the entries pushed so far are those of the first borrowers,
\* in order, and the fetch awaited next is the one of the borrower after
\* them, so the fetch for borrower k+1 starts only after the fetch for
\* borrower k has completed.
C35_TransactionFetchesInOrder ==
  [][\A t \in Tasks :
       (enriched'[t] # enriched[t] \/ tpc'[t] # tpc[t]) =>
       /\ Len(enriched'[t]) >= Len(enriched[t])
       /\ SubSeq(enriched'[t], 1, Len(enriched[t])) = enriched[t]
       /\ FetchedCount(enriched'[t]) <= FetchedCount(enriched[t]) + 1
       /\ FetchedCount(enriched'[t]) > FetchedCount(enriched[t]) => tpc[t] = "txs"
       /\ Len(enriched'[t]) <= Len(topBorrowers'[t])
       /\ \A j \in DOMAIN enriched'[t] :
            enriched'[t][j] = EnrichedBorrower(topBorrowers'[t][j])
       /\ tpc'[t] = "txs" =>
            /\ Len(enriched'[t]) < Len(topBorrowers'[t])
            /\ topBorrowers'[t][Len(enriched'[t]) + 1]]_vars

\* A task with two borrowers that have an address has completed the fetch
\* for the first and awaits the fetch for the second.
C35_Witness_SecondFetchAwaited ==
  /\ pc = "marketStage"
  /\ \E t \in Tasks :
       /\ tpc[t] = "txs"
       /\ topBorrowers[t] = <<TRUE, TRUE>>
       /\ enriched[t] = <<"txs">>

(***************************************************************************)
(* Properties of the bookkeeping of pLimit                                 *)
(***************************************************************************)

\* The tasks whose run() was invoked and whose promise is still pending.
StartedNotSettled == {t \in Tasks : st[t] \notin {"new", "queued"} /\ promise[t] = "pending"}

\* The waiters whose run() is invoked by this step.
StartedByStep == {u \in Tasks : st[u] \in {"new", "queued"} /\ st'[u] \notin {"new", "queued"}}

C36_ActiveCountsStarted ==
  /\ active = Cardinality(StartedNotSettled)
  /\ active >= 0
  /\ \A t \in Tasks : st[t] = "done" <=> promise[t] # "pending"

\* A task gives its slot back in the one step that settles its promise, after
\* fn has settled, for both outcomes, and never again.
C36_ReleasedOnce ==
  /\ \A t \in Tasks :
       /\ promise[t] # "pending" => promise'[t] = promise[t] /\ st'[t] = "done"
       /\ (promise[t] = "pending" /\ promise'[t] # "pending") =>
            /\ st[t] = "settled"
            /\ promise'[t] = (IF outcome[t] = "ok" THEN "resolved" ELSE "rejected")
            /\ active' = (active - 1) + Cardinality(StartedByStep)
  /\ active' < active => \E t \in Tasks : promise[t] = "pending" /\ promise'[t] # "pending"

\* C36: in every reachable state the active counter is the number of tasks
\* started and not yet settled and is never negative, and every task releases
\* its slot exactly once, whether it resolves or rejects.
C36_Bookkeeping == [](C36_ActiveCountsStarted) /\ [][C36_ReleasedOnce]_vars

\* C36 witness: one task has resolved and one has rejected, each after giving
\* its slot to a waiter or back to the gate, while another task holds a slot.
C36_Witness_BothOutcomesReleased ==
  /\ \E t \in Tasks : promise[t] = "resolved"
  /\ \E t \in Tasks : promise[t] = "rejected"
  /\ wasQueued # {}
  /\ active = 1

(***************************************************************************)
(* Properties of the termination of the network helpers                    *)
(***************************************************************************)

\* The largest number of fetch() invocations of one call of the helper.
InvocationBound == IF fn = "gqlRequest" THEN Max(maxRetries, 3) ELSE maxRetries

C37_InvocationsBounded ==
  /\ calls <= InvocationBound
  /\ tryNum <= InvocationBound
  /\ calls = (IF rpc = "ready" THEN tryNum - 1 ELSE tryNum)

\* A retry is the helper calling itself with tryNum + 1, and every fetch() is
\* the first one made under its attempt number.
C37_AttemptIncreases ==
  /\ tryNum' # tryNum => (rpc = "retrySleep" /\ rpc' = "ready" /\ tryNum' = tryNum + 1)
  /\ (rpc = "retrySleep" /\ rpc' # rpc) => tryNum' > tryNum
  /\ calls' # calls => (calls' = calls + 1 /\ calls' = tryNum)

C37_Returned == rpc \in {"ok", "failed"}

\* C37: every call of fetchJsonWithRetry and of gqlRequest terminates whatever
\* the provider answers: each retry has a strictly larger attempt number, and
\* fetch() is invoked at most maxRetries times by fetchJsonWithRetry and at
\* most max(maxRetries, 3) times by gqlRequest.
C37_Terminates ==
  /\ [](C37_InvocationsBounded)
  /\ [][C37_AttemptIncreases]_vars
  /\ <>(C37_Returned)

\* C37 witness: gqlRequest with maxRetries below 3 has thrown after its third
\* invocation, each answered with a GraphQL errors payload.
C37_Witness_ThreeCallsBeyondMaxRetries ==
  /\ fn = "gqlRequest"
  /\ maxRetries < 3
  /\ calls = 3
  /\ rpc = "failed"

(***************************************************************************)
(* Properties of the rows of the pendle_pt_matches sheet                   *)
(***************************************************************************)

\* C38: for every principal-token-like market, the matched flag of its match
\* row is true exactly when some configured chain's active-market list has an
\* entry whose extracted token address equals the market's collateral address;
\* and whenever matched is false, the row's note is non-empty and no external
\* position was fetched for the market's borrowers.
C38_MatchedIffListed ==
  \A x \in DOMAIN pendle :
    collateral[x].pt =>
      /\ ptMatchRow(pendle[x]).matched <=> HitChains(collateral[x].address) # {}
      /\ ~ptMatchRow(pendle[x]).matched =>
           (ptMatchRow(pendle[x]).note # "" /\ x \notin fetchedFor)

(***************************************************************************)
(* Properties of the matching of a market without a collateral address     *)
(***************************************************************************)

\* The entries of the configured chains whose token address extracts to "".
EmptyExtracts ==
  {<<ch, x>> \in Chains \X (1..MaxListLen) :
     /\ ch <= nChains
     /\ x \in DOMAIN activeByChain[ch]
     /\ extractPtAddressFromPendleActive(activeByChain[ch][x].pt) = [threw |-> FALSE, value |-> ""]}

\* C39: a market whose collateral address is missing or empty is never
\* matched, whatever the active-market lists hold, entries whose token
\* address extracts to the empty string included.
C39_NoAddressNeverMatched ==
  (mpc = "done" /\ collateralAddress \in {Null, ""}) => ~matchResult.found

\* C39 witness: the loop has ended without an exception for a market with no
\* collateral address, over a list holding an entry that extracts to "".
C39_Witness_EmptyAgainstEmpty ==
  /\ mpc = "done"
  /\ collateralAddress = Null
  /\ EmptyExtracts # {}
  /\ ~matchResult.threw

(***************************************************************************)
(* Properties of the summary report of the analyzer                        *)
(***************************************************************************)

\* C40: in the report of generateSummaryReport, a PT market's hasPendleData
\* is true exactly when pendleMarketData holds a non-null matched Pendle
\* market under that market's key; it is false for a market that was not
\* analysed or not matched.
C40_HasPendleDataIffMatched ==
  (callee = "generateSummaryReport" /\ hpc = "returned") =>
    \A x \in DOMAIN ret :
      ret[x].hasPendleData <=> (x \in DOMAIN args /\ args[x].chainId > 0)

=============================================================================
